---------------------------- MODULE Spec2Model ----------------------------
(***************************************************************************)
(* A model of wx-stubs: the stub outliner (stub-outliner.py) and the       *)
(* aggregate stub generator (update.py).                                   *)
(*                                                                         *)
(* Python strings are tuples of one-character strings, so that strip,      *)
(* startswith, partition, replace, slicing and the code-point order used   *)
(* by sort are computed as Python computes them.  Python's None is the     *)
(* value None, a tuple that is no Python string.                           *)
(***************************************************************************)
EXTENDS Integers, Sequences, FiniteSets, TLC

VARIABLES
    \* parse_args (stub-outliner.py)
    table,      \* the type_to_arg table the module was loaded with
    args,       \* parse_args' argument: the raw argument tokens
    add_any,    \* parse_args' flag
    r,          \* parse_args' result
    argsPc,     \* "call" before parse_args ran, "done" after
    \* find_signatures (stub-outliner.py)
    doc,        \* the documentation string, as its tokens
    fname,      \* the name whose signatures are asked for
    kwargs,     \* the flags handed on to Signature
    sigs,       \* find_signatures' result
    scanPc,     \* "call" before find_signatures ran, "done" after
    \* make_stub (stub-outliner.py)
    cls,        \* the class being stubbed, as reflection shows it
    stubAny,    \* make_stub's add_any
    file,       \* the lines printed so far
    setters,    \* the getter types recorded for setters
    mi,         \* how many of the sorted method names are done
    stubPc,     \* "header", "init", "methods", "done" or "raised"
    \* update.py
    namespace,      \* wx.__dict__, as the sequence of its items
    stub_files,     \* the override files of stub_dir
    modules,        \* the override files in the order glob yielded them
    mod_dict,       \* the names still to be synthesized
    classes_stubed, \* the classes the override files define
    def_import,     \* one ImportGroup per override file
    def_undef, def_const, def_evt, def_err, def_enum,   \* the buckets
    def_val,        \* the enumeration values by the name of their class
    stdout,         \* the lines printed
    init_file,      \* the text of the aggregate stub, stubs/__init__.pyi
    pkg_stubs,      \* the installed stub tree
    updPc,          \* the step the script is at, "done" or "raised"
    failedIn,       \* the step that raised
    run,            \* how many runs of the script have started
    prev_text,      \* the aggregate stub the run before wrote, or None
    start_file,     \* the aggregate stub when the run started
    start_pkg,      \* the installed tree when the run started
    \* update.py: ImportGroup(imports)
    grp_imports,    \* the imports the constructor is called with
    grp,            \* what the call gave: the group, or the exception raised
    grpPc,          \* "call", "built" or "raised"
    \* stub-outliner.py: Signature(parsed, init, meth, add_any)
    sig_parsed,     \* the parse result: name, args and return
    sig_kw,         \* the flags init, meth and add_any
    sig_built,      \* the signature built
    sigPc,          \* "call" or "built"
    \* stub-outliner.py: write_recursive
    hierarchy,      \* the classes by number: name, __bases__, __subclasses__()
    max_depth,      \* the max_depth argument
    walk_stack,     \* the calls of write_recursive in progress, innermost last
    seen,           \* _seen, the set shared by all the calls
    walk_file,      \* what was written: class stubs and "\n" separators
    walkPc          \* "run" or "done"

argsVars == <<table, args, add_any, r, argsPc>>
scanVars == <<doc, fname, kwargs, sigs, scanPc>>
stubVars == <<cls, stubAny, file, setters, mi, stubPc>>
updVars == <<namespace, stub_files, modules, mod_dict, classes_stubed, def_import,
             def_undef, def_const, def_evt, def_err, def_enum, def_val, stdout,
             init_file, pkg_stubs, updPc, failedIn, run, prev_text, start_file, start_pkg>>
grpVars == <<grp_imports, grp, grpPc>>
sigVars == <<sig_parsed, sig_kw, sig_built, sigPc>>
walkVars == <<hierarchy, max_depth, walk_stack, seen, walk_file, walkPc>>
vars == <<argsVars, scanVars, stubVars, updVars, grpVars, sigVars, walkVars>>

(***************************************************************************)
(* Bounds of the model.                                                    *)
(***************************************************************************)
MaxArgs == 2
MaxSegs == 4
MaxMethods == 2
MaxFiles == 2
MaxRuns == 2
MaxImports == 3
MaxDepth == 3

(***************************************************************************)
(* Python strings.                                                         *)
(***************************************************************************)
None == <<"None">>

\* The characters the model uses, in code-point order.
CharOrder ==
    <<" ", "(", ")", "*", ",", ".", "0", "1", "2", "3", "4", "5", "6", "7", "8",
      "9", "=", "A", "B", "C", "D", "E", "F", "G", "H", "I", "J", "K", "L", "M",
      "N", "O", "P", "Q", "R", "S", "T", "U", "V", "W", "X", "Y", "Z", "[", "]",
      "_", "a", "b", "c", "d", "e", "f", "g", "h", "i", "j", "k", "l", "m", "n",
      "o", "p", "q", "r", "s", "t", "u", "v", "w", "x", "y", "z">>

ord == [c \in {CharOrder[i] : i \in 1..Len(CharOrder)} |->
            CHOOSE i \in 1..Len(CharOrder) : CharOrder[i] = c]

UpperCase == {"A", "B", "C", "D", "E", "F", "G", "H", "I", "J", "K", "L", "M",
              "N", "O", "P", "Q", "R", "S", "T", "U", "V", "W", "X", "Y", "Z"}
LowerCase == {"a", "b", "c", "d", "e", "f", "g", "h", "i", "j", "k", "l", "m",
              "n", "o", "p", "q", "r", "s", "t", "u", "v", "w", "x", "y", "z"}
Digits == {"0", "1", "2", "3", "4", "5", "6", "7", "8", "9"}

isupper(c) == c \in UpperCase

startswith(s, p) == Len(s) >= Len(p) /\ SubSeq(s, 1, Len(p)) = p

endswith(s, p) == Len(s) >= Len(p) /\ SubSeq(s, Len(s) - Len(p) + 1, Len(s)) = p

\* s[:n]
prefix(s, n) == SubSeq(s, 1, IF n < Len(s) THEN n ELSE Len(s))

\* s.strip(c) for a one-character c
strip(s, c) ==
    LET keep == {i \in 1..Len(s) : s[i] # c}
        lo == CHOOSE i \in keep : \A j \in keep : i <= j
        hi == CHOOSE i \in keep : \A j \in keep : i >= j
    IN  IF keep = {} THEN <<>> ELSE SubSeq(s, lo, hi)

\* s < t in Python's order of strings: code point by code point
StrLess(s, t) ==
    \E i \in 1..(Len(t)) :
        /\ i <= Len(s) + 1
        /\ SubSeq(s, 1, i - 1) = SubSeq(t, 1, i - 1)
        /\ \/ i = Len(s) + 1
           \/ ord[s[i]] < ord[t[i]]

\* A local name of the source: its value v is computed once and body F reads it
Once(v, F(_)) == CHOOSE res \in {F(x) : x \in {v}} : TRUE

\* Keys that are strings, as integers in the same order: how many of the keys
\* are below each.  (A one-element set binds a value once, and \o <<>> makes a
\* function over 1..n the tuple of its values.)
StrRanks(strs) ==
    CHOOSE ranks \in
        {[i \in 1..Len(s) |-> Cardinality({j \in 1..Len(s) : StrLess(s[j], s[i])})] \o <<>> :
            s \in {strs \o <<>>}} : TRUE

\* The place each element of a list takes when the list is sorted by the keys,
\* elements of equal keys keeping their order
SortedPlaces(keys) ==
    CHOOSE pos \in
        {[i \in 1..Len(k) |->
            1 + Cardinality({j \in 1..Len(k) : k[j] < k[i] \/ (k[j] = k[i] /\ j < i)})] \o <<>> :
            k \in {keys \o <<>>}} : TRUE

\* list.sort(key=...): stable, ascending in the keys.  keys[i] is the key of seq[i].
StableSort(seq, keys) ==
    CHOOSE res \in
        {[p \in 1..Len(s) |-> s[CHOOSE i \in 1..Len(s) : pos[i] = p]] \o <<>> :
            s \in {seq \o <<>>}, pos \in {SortedPlaces(keys)}} : TRUE

\* list.sort(key=..., reverse=True): descending, equal keys keep their order.
StableSortReverse(seq, keys) ==
    StableSort(seq, [i \in 1..Len(keys) |-> 0 - keys[i]])

\* s.partition("="): <<before, after>> of the first "=", <<s, "">> without one
partition(s) ==
    LET eqs == {i \in 1..Len(s) : s[i] = "="}
        k == CHOOSE i \in eqs : \A j \in eqs : i <= j
    IN  IF eqs = {} THEN <<s, <<>>>>
        ELSE <<SubSeq(s, 1, k - 1), SubSeq(s, k + 1, Len(s))>>

\* s.isidentifier()
isidentifier(s) ==
    /\ s # <<>>
    /\ s[1] \in UpperCase \cup LowerCase \cup {"_"}
    /\ \A i \in 1..Len(s) : s[i] \in UpperCase \cup LowerCase \cup Digits \cup {"_"}

RECURSIVE Flatten(_)
Flatten(ss) == IF ss = <<>> THEN <<>> ELSE Head(ss) \o Flatten(Tail(ss))

(***************************************************************************)
(* Parsing (stub-outliner.py).  A documentation string is the sequence of   *)
(* its tokens: pyparsing skips white space before every token, so white    *)
(* space is not kept.  An identifier carries its text; a "val" token is a  *)
(* number, a double-quoted string or [] and carries the text Combine       *)
(* yields for it; "junk" is any other character.                           *)
(***************************************************************************)
Tok(k, s) == [k |-> k, s |-> s]
Id(s) == Tok("id", s)
Val(s) == Tok("val", s)
LP == Tok("(", <<>>)
RP == Tok(")", <<>>)
COMMA == Tok(",", <<>>)
EQ == Tok("=", <<>>)
ARROW == Tok("->", <<>>)
JUNK == Tok("junk", <<>>)

Is(t, j, k) == j \in 1..Len(t) /\ t[j].k = k

NoParse == [ok |-> FALSE]

\* val = ident | QuotedString | number | "[]" | "()"
ValAt(t, j) ==
    IF Is(t, j, "id") \/ Is(t, j, "val") THEN [ok |-> TRUE, end |-> j + 1, s |-> t[j].s]
    ELSE IF Is(t, j, "(") /\ Is(t, j + 1, ")") THEN [ok |-> TRUE, end |-> j + 2, s |-> <<"(",")">>]
    ELSE NoParse

\* arg = Combine(ident + Optional("=" + val))
ArgAt(t, j) ==
    IF ~Is(t, j, "id") THEN NoParse
    ELSE LET v == IF Is(t, j + 1, "=") THEN ValAt(t, j + 2) ELSE NoParse
         IN  IF v.ok THEN [ok |-> TRUE, end |-> v.end, s |-> t[j].s \o <<"=">> \o v.s]
             ELSE [ok |-> TRUE, end |-> j + 1, s |-> t[j].s]

\* ZeroOrMore("," + arg) of delimitedList
RECURSIVE MoreArgs(_, _)
MoreArgs(t, j) ==
    IF ~Is(t, j, ",") THEN [end |-> j, l |-> <<>>]
    ELSE Once(ArgAt(t, j + 1), LAMBDA a :
            IF a.ok
            THEN Once(MoreArgs(t, a.end), LAMBDA m : [end |-> m.end, l |-> <<a.s>> \o m.l])
            ELSE [end |-> j, l |-> <<>>])

\* args = "(" + Optional(delimitedList(arg)) + ")"
ArgsAt(t, j) ==
    IF ~Is(t, j, "(") THEN NoParse
    ELSE Once(ArgAt(t, j + 1), LAMBDA a :
            Once(IF a.ok THEN MoreArgs(t, a.end) ELSE [end |-> j + 1, l |-> <<>>], LAMBDA m :
                IF Is(t, m.end, ")")
                THEN [ok |-> TRUE, end |-> m.end + 1, l |-> IF a.ok THEN <<a.s>> \o m.l ELSE <<>>]
                ELSE NoParse))

\* ZeroOrMore("," + ident) of tp_repr
RECURSIVE MoreIdents(_, _)
MoreIdents(t, j) ==
    IF Is(t, j, ",") /\ Is(t, j + 1, "id")
    THEN Once(MoreIdents(t, j + 2), LAMBDA m : [end |-> m.end, s |-> <<",">> \o t[j + 1].s \o m.s])
    ELSE [end |-> j, s |-> <<>>]

\* tp_repr = Combine("(" + ident + ZeroOrMore("," + ident) + ")")
TpReprAt(t, j) ==
    IF ~(Is(t, j, "(") /\ Is(t, j + 1, "id")) THEN NoParse
    ELSE Once(MoreIdents(t, j + 2), LAMBDA m :
            IF Is(t, m.end, ")")
            THEN [ok |-> TRUE, end |-> m.end + 1, s |-> <<"(">> \o t[j + 1].s \o m.s \o <<")">>]
            ELSE NoParse)

\* ret = Optional("->" + (tp_repr | ident), default="None")
RetAt(t, j) ==
    Once(IF Is(t, j, "->") THEN TpReprAt(t, j + 1) ELSE NoParse, LAMBDA tp :
        IF tp.ok THEN [end |-> tp.end, s |-> tp.s]
        ELSE IF Is(t, j, "->") /\ Is(t, j + 1, "id") THEN [end |-> j + 2, s |-> t[j + 1].s]
        ELSE [end |-> j, s |-> <<"N","o","n","e">>])

\* func = name + args + ret, tried at token i
FuncAt(t, i) ==
    IF ~Is(t, i, "id") THEN NoParse
    ELSE Once(ArgsAt(t, i + 1), LAMBDA a :
            IF ~a.ok THEN NoParse
            ELSE Once(RetAt(t, a.end), LAMBDA rt :
                    [ok |-> TRUE, end |-> rt.end, at |-> i,
                     name |-> t[i].s, args |-> a.l, return |-> rt.s]))

\* scanString as a parse of the whole string would be: the scan ends at the first
\* token that starts no match, instead of moving on by one
RECURSIVE scanString_no_skip(_, _)
scanString_no_skip(t, i) ==
    IF i > Len(t) THEN <<>>
    ELSE Once(FuncAt(t, i), LAMBDA m :
            IF m.ok THEN <<m>> \o scanString_no_skip(t, m.end)
            ELSE <<>>)

\* func.scanString(doc): the matches from left to right, each search resuming
\* where the last match ended, or one further on after a failure
RECURSIVE scanString(_, _)
scanString(t, i) ==
    IF i > Len(t) THEN <<>>
    ELSE Once(FuncAt(t, i), LAMBDA m :
            IF m.ok THEN <<m>> \o scanString(t, m.end)
            ELSE scanString(t, i + 1))

(***************************************************************************)
(* Type heuristics (stub-outliner.py).                                     *)
(***************************************************************************)
\* The table in the order the dict literal gives its keys.
type_to_arg ==
    << <<<<"i","n","t">>, <<<<"x","*">>, <<"y","*">>, <<"h","*">>, <<"w","i","d","t","h">>, <<"h","e","i","g","h","t">>>> >>,
       <<<<"w","x",".","_","W","i","n","d","o","w","I","D">>, <<<<"w","i","n","d","i","d">>, <<"w","i","n","i","d">>>> >>,
       <<<<"P","o","i","n","t","L","i","k","e">>, <<<<"p","t","*">>, <<"p","o","i","n","t">>>> >>,
       <<<<"S","i","z","e","L","i","k","e">>, <<<<"d","i","m">>, <<"s","z">>, <<"s","i","z","e">>>> >>,
       <<<<"R","e","c","t","L","i","k","e">>, <<<<"r","e","c","t">>>> >>,
       <<<<"w","x",".","B","i","t","m","a","p">>, <<<<"b","i","t","m","a","p","*">>, <<"b","m","p","*">>, <<"*","B","i","t","m","a","p">>>> >>,
       <<<<"w","x",".","W","i","n","d","o","w">>, <<<<"w","i","n","d","o","w">>>> >>,
       <<<<"w","x",".","_","E","v","e","n","t","T","y","p","e">>, <<<<"*","e","v","e","n","t","T","y","p","e">>, <<"e","v","t","T","y","p","e">>>> >>,
       <<<<"w","x",".","D","C">>, <<<<"d","c">>>> >>,
       <<<<"S","t","r","i","n","g">>, <<<<"l","a","b","e","l">>, <<"t","e","x","t">>, <<"s","t","r">>, <<"s","t","r","i","n","g">>>> >>,
       <<<<"A","n","y">>, <<<<"c","l","i","e","n","t","D","a","t","a">>>> >>,
       <<<<"w","x",".","I","c","o","n">>, <<<<"i","c","o","n">>>> >>,
       <<<<"w","x",".","C","o","l","o","u","r">>, <<<<"*","C","o","l","o","u","r">>, <<"c","o","l","o","u","r">>>> >>,
       <<<<"w","x",".","F","o","n","t">>, <<<<"f","o","n","t">>>> >>,
       <<<<"w","x",".","I","m","a","g","e","L","i","s","t">>, <<<<"i","m","a","g","e","L","i","s","t">>>> >> >>

\* A table of the same shape holding a wildcard and an exact pattern that both
\* cover one name ("x*" and "xPosition"), and the pattern "win*".
scenario_type_to_arg ==
    << <<<<"T","1">>, <<<<"x","*">>>> >>,
       <<<<"T","2">>, <<<<"x","P","o","s","i","t","i","o","n">>>> >>,
       <<<<"T","3">>, <<<<"w","i","n","*">>>> >> >>

\* [(p, t) for t, v in type_to_arg.items() for p in v]
PaternsOf(tbl) ==
    Flatten([i \in 1..Len(tbl) |->
                [j \in 1..Len(tbl[i][2]) |-> <<tbl[i][2][j], tbl[i][1]>>]])

\* The key of patern_and_type.sort: len of the (patern, type) pair.
PaternSortKey(pt) == Len(pt)

\* patern_and_type, after its sort(key=len, reverse=True)
patern_and_type(tbl) ==
    LET l == PaternsOf(tbl)
    IN  StableSortReverse(l, [i \in 1..Len(l) |-> PaternSortKey(l[i])])

match(string, patern) ==
    LET stem == strip(patern, "*")
    IN  \/ string = stem
        \/ /\ startswith(patern, <<"*">>)
           /\ endswith(string, stem)
        \/ /\ endswith(patern, <<"*">>)
           /\ startswith(string, stem)
           /\ isupper(string[Len(stem) + 1])

convert_arg_type ==
    << <<<<"s","t","r">>, <<"S","t","r","i","n","g">>>>,
       <<<<"b","y","t","e","s">>, <<"S","t","r","i","n","g">>>>,
       <<<<"l","i","s","t">>, <<"S","e","q","u","e","n","c","e","[","]">>>>,
       <<<<"S","t","a","n","d","a","r","d","I","D">>, <<"w","x",".","_","W","i","n","d","o","w","I","D">>>>,
       <<<<"P","o","i","n","t">>, <<"P","o","i","n","t","L","i","k","e">>>>,
       <<<<"S","i","z","e">>, <<"S","i","z","e","L","i","k","e">>>>,
       <<<<"R","e","c","t">>, <<"R","e","c","t","L","i","k","e">>>> >>

\* d.get(key, default) of a dict given as a tuple of <<key, value>> pairs
DictGet(d, key, default) ==
    IF \E i \in 1..Len(d) : d[i][1] = key
    THEN d[CHOOSE i \in 1..Len(d) : d[i][1] = key][2]
    ELSE default

\* The toolkit namespace as getattr(wx, name, None) and hasattr(wx, name) see it:
\* <<name, type(x).__name__, whether type(x).__module__ starts with "wx">>.
wx_namespace ==
    << <<<<"I","D","_","A","N","Y">>, <<"S","t","a","n","d","a","r","d","I","D">>, TRUE>>,
       <<<<"D","e","f","a","u","l","t","P","o","s","i","t","i","o","n">>, <<"P","o","i","n","t">>, TRUE>>,
       <<<<"D","e","f","a","u","l","t","S","i","z","e">>, <<"S","i","z","e">>, TRUE>>,
       <<<<"N","u","l","l","B","i","t","m","a","p">>, <<"B","i","t","m","a","p">>, TRUE>>,
       <<<<"S","i","z","e">>, <<"e","n","u","m","t","y","p","e">>, FALSE>>,
       <<<<"W","i","n","d","o","w">>, <<"e","n","u","m","t","y","p","e">>, FALSE>>,
       <<<<"B","i","t","m","a","p">>, <<"e","n","u","m","t","y","p","e">>, FALSE>>,
       <<<<"C","o","l","o","u","r">>, <<"e","n","u","m","t","y","p","e">>, FALSE>> >>

hasattr_wx(name) == \E i \in 1..Len(wx_namespace) : wx_namespace[i][1] = name

\* ast.literal_eval(string), as the type of its value: a number, [] and (); any
\* other text of the model's defaults is no literal
literal_type(string) ==
    IF string # <<>> /\ \A i \in 1..Len(string) : string[i] \in Digits THEN <<<<"i","n","t">>, FALSE>>
    ELSE IF string = <<"[","]">> THEN <<<<"l","i","s","t">>, FALSE>>
    ELSE IF string = <<"(",")">> THEN <<<<"t","u","p","l","e">>, FALSE>>
    ELSE None

get_type_from_default(string) ==
    LET x == IF string \in {<<"T","r","u","e">>, <<"F","a","l","s","e">>} THEN <<<<"b","o","o","l">>, FALSE>>
             ELSE IF isidentifier(string)
                  THEN IF hasattr_wx(string)
                       THEN LET e == wx_namespace[CHOOSE i \in 1..Len(wx_namespace) :
                                                    wx_namespace[i][1] = string]
                            IN  <<e[2], e[3]>>
                       ELSE None
                  ELSE literal_type(string)
    IN  IF x = None THEN None
        ELSE IF \E i \in 1..Len(convert_arg_type) : convert_arg_type[i][1] = x[1]
             THEN DictGet(convert_arg_type, x[1], None)
             ELSE IF x[2] THEN <<"w","x",".">> \o x[1]
                  ELSE x[1]

ret_trans_table ==
    << <<<<"P","y","U","s","e","r","D","a","t","a">>, <<"A","n","y">>>>,
       <<<<"C","l","i","e","n","t","D","a","t","a">>, <<"A","n","y">>>>,
       <<<<"P","y","O","b","j","e","c","t">>, <<"?">>>>,
       <<<<"S","t","r","i","n","g">>, <<"s","t","r">>>>,
       <<<<"d","o","u","b","l","e">>, <<"f","l","o","a","t">>>>,
       <<<<"l","o","n","g">>, <<"i","n","t">>>>,
       <<<<"L","o","n","g","L","o","n","g">>, <<"i","n","t">>>>,
       <<<<"u","n","s","i","g","n","e","d","c","h","a","r">>, <<"i","n","t">>>>,
       <<<<"u","n","s","i","g","n","e","d","i","n","t">>, <<"i","n","t">>>>,
       <<<<"U","i","n","t","3","2">>, <<"i","n","t">>>>,
       <<<<"U","I","n","t","P","t","r">>, <<"i","n","t">>>>,
       <<<<"C","o","o","r","d">>, <<"i","n","t">>>>,
       <<<<"s","i","z","e","_","t">>, <<"i","n","t">>>>,
       <<<<"I","n","t","P","t","r">>, <<"i","n","t">>>>,
       <<<<"U","i","n","t","1","6">>, <<"i","n","t">>>>,
       <<<<"u","n","s","i","g","n","e","d","l","o","n","g">>, <<"i","n","t">>>>,
       <<<<"A","r","r","a","y","S","t","r","i","n","g">>, <<"l","i","s","t","[","s","t","r","]">>>>,
       <<<<"A","r","r","a","y","I","n","t">>, <<"l","i","s","t","[","i","n","t","]">>>> >>

modify_ret(ret) ==
    IF \E i \in 1..Len(ret_trans_table) : ret_trans_table[i][1] = ret
    THEN DictGet(ret_trans_table, ret, ret)
    ELSE IF hasattr_wx(ret) THEN <<"w","x",".">> \o ret
    ELSE ret

(***************************************************************************)
(* Signatures (stub-outliner.py).                                          *)
(***************************************************************************)
Arg(name, tp, deafult) == [name |-> name, tp |-> tp, deafult |-> deafult]

\* The type of the first pattern of the sorted list that the loop of parse_args
\* takes to match: it calls match(a, name) with the pattern a first.
TypeFromName(name, pats) ==
    LET hits == {i \in 1..Len(pats) : match(pats[i][1], name)}
    IN  IF hits = {} THEN None
        ELSE pats[CHOOSE i \in hits : \A j \in hits : i <= j][2]

\* ParseArg without the step that fills an uninferred type with "Any"
ParseArg_no_any(arg, any, pats) ==
    LET name == partition(arg)[1]
        default == partition(arg)[2]
        tp0 == IF default # <<>> THEN get_type_from_default(default)
               ELSE TypeFromName(name, pats)
    IN  Arg(name, tp0, default # <<>>)

ParseArg(arg, any, pats) ==
    LET name == partition(arg)[1]
        default == partition(arg)[2]
        tp0 == IF default # <<>> THEN get_type_from_default(default)
               ELSE TypeFromName(name, pats)
        tp == IF tp0 = None /\ any THEN <<"A","n","y">> ELSE tp0
    IN  Arg(name, tp, default # <<>>)

\* pats is patern_and_type, the module's sorted list of patterns
parse_args(as, any, pats) ==
    Once(pats, LAMBDA ps : [i \in 1..Len(as) |-> ParseArg(as[i], any, ps)] \o <<>>)

\* patern_and_type as the module builds it from its own table
wx_patern_and_type == patern_and_type(type_to_arg)

\* Signature.__init__; kw holds the flags init, meth and add_any
Signature(parsed, kw) ==
    LET meth == kw.init \/ kw.meth
    IN  [retanot |-> modify_ret(parsed.return),
         name |-> IF ~kw.init THEN parsed.name ELSE <<"_","_","i","n","i","t","_","_">>,
         args |-> (IF ~meth THEN <<>> ELSE <<Arg(<<"s","e","l","f">>, None, FALSE)>>)
                    \o parse_args(parsed.args, kw.add_any, wx_patern_and_type)]

\* The matches of the scan that find_signatures keeps
MatchesNamed(d, name) ==
    LET IsNamed(parsed) == parsed.name = name
    IN  SelectSeq(scanString(d, 1), IsNamed)

find_signatures(d, name, kw) ==
    Once(MatchesNamed(d, name), LAMBDA kept :
        [i \in 1..Len(kept) |-> Signature(kept[i], kw)] \o <<>>)

(***************************************************************************)
(* Stub file (stub-outliner.py): make_stub.                                *)
(***************************************************************************)
\* sub in s
Contains(s, sub) ==
    \E i \in 1..(Len(s) - Len(sub) + 1) : SubSeq(s, i, i + Len(sub) - 1) = sub

\* s.replace(old, new): every occurrence, from the left, without overlap
RECURSIVE replace(_, _, _)
replace(s, old, new) ==
    IF s = <<>> THEN <<>>
    ELSE IF startswith(s, old) THEN new \o replace(SubSeq(s, Len(old) + 1, Len(s)), old, new)
    ELSE <<Head(s)>> \o replace(Tail(s), old, new)

\* s.removeprefix(p)
removeprefix(s, p) == IF startswith(s, p) THEN SubSeq(s, Len(p) + 1, Len(s)) ELSE s

\* sorted(names)
RECURSIVE sorted(_)
sorted(names) ==
    IF names = {} THEN <<>>
    ELSE LET m == CHOOSE x \in names : \A y \in names \ {x} : StrLess(x, y)
         IN  <<m>> \o sorted(names \ {m})

\* ", ".join(l)
RECURSIVE JoinComma(_)
JoinComma(l) ==
    IF l = <<>> THEN <<>>
    ELSE IF Len(l) = 1 THEN l[1]
    ELSE l[1] \o <<","," ">> \o JoinComma(Tail(l))

\* Signature.print: the line written for a signature
print(sig, indent) ==
    LET one(a) == a.name
                    \o (IF a.tp # None THEN <<":"," ">> \o a.tp ELSE <<>>)
                    \o (IF a.deafult THEN <<" ","="," ",".",".",".">> ELSE <<>>)
    IN  indent \o <<"d","e","f"," ">> \o sig.name \o <<"(">>
            \o JoinComma([i \in 1..Len(sig.args) |-> one(sig.args[i])])
            \o <<")"," ","-",">"," ">> \o sig.retanot \o <<":"," ",".",".",".">>

\* Signature.set_type
set_type(sig, i, tp) == [sig EXCEPT !.args[i].tp = tp]

\* signature_using_inspect for a callable inspect.signature rejects, as it does
\* the toolkit's bound methods
signature_using_inspect(any) ==
    IF any THEN <<"(","s","e","l","f",","," ","/",","," ","*","a","r","g","s",":"," ","A","n","y",","," ","*","*","k","w","a","r","g","s",":"," ","A","n","y",")">> ELSE <<"(","s","e","l","f",","," ","/",","," ","*","a","r","g","s",","," ","*","*","k","w","a","r","g","s",")">>

deafult_signatures == {signature_using_inspect(FALSE), signature_using_inspect(TRUE)}

Line(owner, text) == [owner |-> owner, text |-> text]

\* The class header: "class Name(bases):"
ClassHeader(c, hide_mod) ==
    LET shown == SelectSeq(c.bases, LAMBDA b : ~b.root)
        one(b) == IF b.name \in hide_mod THEN b.name
                  ELSE IF startswith(b.mod, <<"w","x">>) THEN <<"w","x",".">> \o b.name
                  ELSE b.mod \o <<".">> \o b.name
    IN  <<"c","l","a","s","s"," ">> \o c.name \o <<"(">>
            \o JoinComma([i \in 1..Len(shown) |-> one(shown[i])]) \o <<")",":">>

InitKw(any) == [init |-> TRUE, meth |-> TRUE, add_any |-> any]
MethKw(any) == [init |-> FALSE, meth |-> TRUE, add_any |-> any]

\* The constructor signatures make_stub starts from: those of the class
\* docstring, or else those of __init__'s docstring
InitSignatures(c, any) ==
    Once(find_signatures(c.doc, c.name, InitKw(any)), LAMBDA fromCls :
        IF fromCls # <<>> THEN fromCls ELSE find_signatures(c.initDoc, c.name, InitKw(any)))

\* The heuristics for the arguments of an Event subclass' __init__
RECURSIVE EventTypes(_, _)
EventTypes(sig, i) ==
    IF i >= (IF 3 < Len(sig.args) THEN 3 ELSE Len(sig.args)) THEN sig
    ELSE LET n == sig.args[i + 1].name
             s1 == IF Contains(n, <<"T","y","p","e">>) THEN set_type(sig, i + 1, <<"w","x",".","_","E","v","e","n","t","T","y","p","e">>)
                   ELSE IF n \in {<<"i","d">>, <<"w","i","n","i","d">>, <<"w","i","n","d","i","d">>}
                        THEN set_type(sig, i + 1, <<"w","x",".","_","W","i","n","d","o","w","I","D">>)
                        ELSE sig
         IN  EventTypes(s1, i + 1)

\* InitHeuristics without the step that types the parameter after parent
InitHeuristics_parent_only(c, sig) ==
    IF Len(sig.args) < 2 THEN [raised |-> FALSE, sig |-> sig]
    ELSE IF c.window /\ sig.args[2].name = <<"p","a","r","e","n","t">>
    THEN LET s1 == IF c.toplevel THEN set_type(sig, 2, <<"O","p","t","i","o","n","a","l","[","w","x",".","W","i","n","d","o","w","]">>)
                   ELSE set_type(sig, 2, <<"w","x",".","W","i","n","d","o","w">>)
         IN  IF Len(s1.args) < 3 THEN [raised |-> TRUE]
             ELSE [raised |-> FALSE, sig |-> s1]
    ELSE IF c.event THEN [raised |-> FALSE, sig |-> EventTypes(sig, 1)]
    ELSE [raised |-> FALSE, sig |-> sig]

\* One round of the loop over the constructor signatures.  Python's args[k] is
\* args[k + 1] here.  [raised |-> TRUE] is the IndexError of sig.args[2].
InitHeuristics(c, sig) ==
    IF Len(sig.args) < 2 THEN [raised |-> FALSE, sig |-> sig]
    ELSE IF c.window /\ sig.args[2].name = <<"p","a","r","e","n","t">>
    THEN LET s1 == IF c.toplevel THEN set_type(sig, 2, <<"O","p","t","i","o","n","a","l","[","w","x",".","W","i","n","d","o","w","]">>)
                   ELSE set_type(sig, 2, <<"w","x",".","W","i","n","d","o","w">>)
         IN  IF Len(s1.args) < 3 THEN [raised |-> TRUE]
             ELSE IF s1.args[3].name = <<"i","d">>
                  THEN [raised |-> FALSE, sig |-> set_type(s1, 3, <<"w","x",".","_","W","i","n","d","o","w","I","D">>)]
                  ELSE [raised |-> FALSE, sig |-> s1]
    ELSE IF c.event THEN [raised |-> FALSE, sig |-> EventTypes(sig, 1)]
    ELSE [raised |-> FALSE, sig |-> sig]

\* The lines of an overload group, or of a single signature
SignatureLines(owner, ss) ==
    IF Len(ss) = 1 THEN <<Line(owner, print(ss[1], <<" "," "," "," ">>))>>
    ELSE Flatten([i \in 1..Len(ss) |->
                    <<Line(owner, <<" "," "," "," ","@","o","v","e","r","l","o","a","d">>), Line(owner, print(ss[i], <<" "," "," "," ">>))>>])

\* The constructor part of make_stub: the lines it prints, unless it raises
InitLines(c, any) ==
    Once(InitSignatures(c, any), LAMBDA ss :
        Once([i \in 1..Len(ss) |-> InitHeuristics(c, ss[i])] \o <<>>, LAMBDA hs :
            IF ss = <<>>
            THEN [raised |-> FALSE,
                  lines |-> IF c.initSignature \notin deafult_signatures
                            THEN <<Line(<<"_","_","i","n","i","t","_","_">>,
                                        <<" "," "," "," ","d","e","f"," ","_","_","i","n","i","t","_","_">> \o c.initSignature \o <<" ","-",">"," ","N","o","n","e",":"," ",".",".",".">>)>>
                            ELSE <<>>]
            ELSE IF \E i \in 1..Len(hs) : hs[i].raised THEN [raised |-> TRUE]
            ELSE [raised |-> FALSE,
                  lines |-> SignatureLines(<<"_","_","i","n","i","t","_","_">>, [i \in 1..Len(hs) |-> hs[i].sig] \o <<>>)]))

\* The type a getter's return annotation gives its setter
SetterType(retanot) == DictGet(convert_arg_type, removeprefix(retanot, <<"w","x",".">>), retanot)

\* MethodRound without the test that the setter has one parameter after self
MethodRound_any_arity(name, d, any, st) ==
    Once(find_signatures(d, name, MethKw(any)), LAMBDA ss :
        IF ss = <<>>
        THEN [setters |-> st,
              lines |-> <<Line(name, <<" "," "," "," ","d","e","f"," ">> \o name \o signature_using_inspect(any)
                                        \o <<" ","-",">"," ","A","n","y",":"," ",".",".",".">>)>>]
        ELSE IF Len(ss) = 1
        THEN LET sig == ss[1]
             IN  IF startswith(sig.name, <<"G","e","t">>)
                 THEN [setters |-> (replace(sig.name, <<"G","e","t">>, <<"S","e","t">>) :> SetterType(sig.retanot))
                                        @@ st,
                       lines |-> SignatureLines(name, ss)]
                 ELSE IF /\ sig.name \in DOMAIN st
                         /\ Len(sig.args) >= 2
                         /\ sig.args[2].tp \in {None, <<"A","n","y">>}
                 THEN [setters |-> [k \in DOMAIN st \ {name} |-> st[k]],
                       lines |-> SignatureLines(name, <<set_type(sig, 2, st[name])>>)]
                 ELSE [setters |-> st, lines |-> SignatureLines(name, ss)]
        ELSE [setters |-> st, lines |-> SignatureLines(name, ss)])

\* One round of the loop over the sorted method names: the setters dict and the
\* lines printed after it
MethodRound(name, d, any, st) ==
    Once(find_signatures(d, name, MethKw(any)), LAMBDA ss :
        IF ss = <<>>
        THEN [setters |-> st,
              lines |-> <<Line(name, <<" "," "," "," ","d","e","f"," ">> \o name \o signature_using_inspect(any)
                                        \o <<" ","-",">"," ","A","n","y",":"," ",".",".",".">>)>>]
        ELSE IF Len(ss) = 1
        THEN LET sig == ss[1]
             IN  IF startswith(sig.name, <<"G","e","t">>)
                 THEN [setters |-> (replace(sig.name, <<"G","e","t">>, <<"S","e","t">>) :> SetterType(sig.retanot))
                                        @@ st,
                       lines |-> SignatureLines(name, ss)]
                 ELSE IF /\ sig.name \in DOMAIN st
                         /\ Len(sig.args) = 2
                         /\ sig.args[2].tp \in {None, <<"A","n","y">>}
                 THEN [setters |-> [k \in DOMAIN st \ {name} |-> st[k]],
                       lines |-> SignatureLines(name, <<set_type(sig, 2, st[name])>>)]
                 ELSE [setters |-> st, lines |-> SignatureLines(name, ss)]
        ELSE [setters |-> st, lines |-> SignatureLines(name, ss)])

(***************************************************************************)
(* parse_args applied to bounded argument lists.                           *)
(***************************************************************************)
Tables == {type_to_arg, scenario_type_to_arg}

RawArgs ==
    {<<"x","P","o","s","i","t","i","o","n">>, <<"x","O","f","f","s","e","t">>, <<"x">>, <<"w","i","n","I","D">>, <<"w","i","n","n","e","r">>, <<"w","i","n">>, <<"p","a","r","e","n","t">>,
     <<"s","i","z","e">>, <<"b","m","p","O","p","e","n">>, <<"i","d","=","0">>, <<"i","d","=","I","D","_","A","N","Y">>, <<"f","l","a","g","=","T","r","u","e">>, <<"l","a","b","e","l","=">>,
     <<"p","o","s","=","D","e","f","a","u","l","t","P","o","s","i","t","i","o","n">>, <<"i","t","e","m","s","=","[","]">>, <<"t","e","x","t","=","h","e","l","l","o">>}

SeqsUpTo(S, n) == UNION {[1..k -> S] : k \in 0..n}

ArgsInit ==
    /\ table \in Tables
    /\ args \in SeqsUpTo(RawArgs, MaxArgs)
    /\ add_any \in BOOLEAN
    /\ r = <<>>
    /\ argsPc = "call"

ParseArgsCall ==
    /\ argsPc = "call"
    /\ r' = parse_args(args, add_any, patern_and_type(table))
    /\ argsPc' = "done"
    /\ UNCHANGED <<table, args, add_any>>

ArgsIdle ==
    /\ table = <<>>
    /\ args = <<>>
    /\ add_any = FALSE
    /\ r = <<>>
    /\ argsPc = "idle"

(***************************************************************************)
(* find_signatures applied to bounded documentation strings, each the      *)
(* concatenation of at most MaxSegs segments: whole signatures and single  *)
(* tokens.                                                                 *)
(***************************************************************************)
Segments ==
    { <<Id(<<"F","o","o">>), LP, RP>>,
      <<Id(<<"F","o","o">>), LP, Id(<<"s","i","z","e">>), COMMA, Id(<<"i","d">>), EQ, Val(<<"0">>), RP, ARROW, Id(<<"i","n","t">>)>>,
      <<Id(<<"F","o","o">>), LP, RP, ARROW, LP, Id(<<"s","i","z","e">>), COMMA, Id(<<"i","d">>), RP>>,
      <<Id(<<"B","a","r">>), LP, Id(<<"s","i","z","e">>), RP, ARROW, Id(<<"F","o","o">>)>>,
      <<Id(<<"F","o","o">>)>>, <<Id(<<"B","a","r">>)>>, <<Id(<<"s","i","z","e">>)>>, <<Val(<<"0">>)>>,
      <<LP>>, <<RP>>, <<COMMA>>, <<EQ>>, <<ARROW>>, <<JUNK>> }

Kwargs ==
    { [init |-> FALSE, meth |-> FALSE, add_any |-> FALSE],
      [init |-> TRUE, meth |-> TRUE, add_any |-> TRUE] }

ScanInit ==
    /\ doc \in {Flatten(ss) : ss \in SeqsUpTo(Segments, MaxSegs)}
    /\ fname = <<"F","o","o">>
    /\ kwargs \in Kwargs
    /\ sigs = <<>>
    /\ scanPc = "call"

ScanIdle ==
    /\ doc = <<>>
    /\ fname = <<>>
    /\ kwargs = [init |-> FALSE, meth |-> FALSE, add_any |-> FALSE]
    /\ sigs = <<>>
    /\ scanPc = "idle"

FindSignaturesCall ==
    /\ scanPc = "call"
    /\ sigs' = find_signatures(doc, fname, kwargs)
    /\ scanPc' = "done"
    /\ UNCHANGED <<doc, fname, kwargs>>

(***************************************************************************)
(* make_stub applied to bounded classes.  A class is what reflection gives *)
(* make_stub: its name, its bases (root: object or the sip wrapper), what  *)
(* issubclass says of it, its docstring and that of its __init__ as        *)
(* tokens, what inspect shows of its __init__, and its methods' docstrings.*)
(***************************************************************************)
Base(name, mod, root) == [name |-> name, mod |-> mod, root |-> root]

ClassKinds ==
    { [window |-> FALSE, toplevel |-> FALSE, event |-> FALSE,
       bases |-> <<Base(<<"o","b","j","e","c","t">>, <<"b","u","i","l","t","i","n","s">>, TRUE)>>],
      [window |-> TRUE, toplevel |-> FALSE, event |-> FALSE,
       bases |-> <<Base(<<"W","i","n","d","o","w">>, <<"w","x",".","_","c","o","r","e">>, FALSE)>>],
      [window |-> TRUE, toplevel |-> TRUE, event |-> FALSE,
       bases |-> <<Base(<<"T","o","p","L","e","v","e","l","W","i","n","d","o","w">>, <<"w","x",".","_","c","o","r","e">>, FALSE)>>],
      [window |-> FALSE, toplevel |-> FALSE, event |-> TRUE,
       bases |-> <<Base(<<"E","v","e","n","t">>, <<"w","x",".","_","c","o","r","e">>, FALSE)>>] }

\* "Foo(parent, id=0) -> None"
DocParentId ==
    <<Id(<<"F","o","o">>), LP, Id(<<"p","a","r","e","n","t">>), COMMA, Id(<<"i","d">>), EQ, Val(<<"0">>), RP, ARROW, Id(<<"N","o","n","e">>)>>
\* "Foo(parent)"
DocParent == <<Id(<<"F","o","o">>), LP, Id(<<"p","a","r","e","n","t">>), RP>>
\* "Foo(parent, size)"
DocParentSize == <<Id(<<"F","o","o">>), LP, Id(<<"p","a","r","e","n","t">>), COMMA, Id(<<"s","i","z","e">>), RP>>
\* "Foo()  Foo(parent, id=ID_ANY, size=DefaultSize)"
DocOverloads ==
    <<Id(<<"F","o","o">>), LP, RP,
      Id(<<"F","o","o">>), LP, Id(<<"p","a","r","e","n","t">>), COMMA, Id(<<"i","d">>), EQ, Id(<<"I","D","_","A","N","Y">>), COMMA,
      Id(<<"s","i","z","e">>), EQ, Id(<<"D","e","f","a","u","l","t","S","i","z","e">>), RP>>
\* "Foo(evtType=0, winid=0)"
DocEvent ==
    <<Id(<<"F","o","o">>), LP, Id(<<"e","v","t","T","y","p","e">>), EQ, Val(<<"0">>), COMMA, Id(<<"w","i","n","i","d">>), EQ, Val(<<"0">>), RP>>

InitSources ==
    { [doc |-> DocParentId, initDoc |-> <<>>, initSignature |-> signature_using_inspect(FALSE)],
      [doc |-> DocParent, initDoc |-> <<>>, initSignature |-> signature_using_inspect(FALSE)],
      [doc |-> DocParentSize, initDoc |-> <<>>, initSignature |-> signature_using_inspect(FALSE)],
      [doc |-> DocOverloads, initDoc |-> <<>>, initSignature |-> signature_using_inspect(FALSE)],
      [doc |-> DocEvent, initDoc |-> <<>>, initSignature |-> signature_using_inspect(FALSE)],
      [doc |-> <<>>, initDoc |-> DocParentId, initSignature |-> <<"(","s","e","l","f",","," ","p","a","r","e","n","t",","," ","i","d","=","0",")">>],
      [doc |-> <<>>, initDoc |-> <<>>, initSignature |-> signature_using_inspect(FALSE)],
      [doc |-> <<>>, initDoc |-> <<>>, initSignature |-> <<"(","s","e","l","f",","," ","p","a","r","e","n","t","=","N","o","n","e",")">>] }

\* The methods a class may have: <<name, docstring>>
MethodDocs ==
    { <<<<"G","e","t","W","i","d","t","h">>, <<Id(<<"G","e","t","W","i","d","t","h">>), LP, RP, ARROW, Id(<<"i","n","t">>)>> >>,
      <<<<"G","e","t","W","i","d","t","h">>, <<Id(<<"G","e","t","W","i","d","t","h">>), LP, RP, ARROW, Id(<<"i","n","t">>),
                       Id(<<"G","e","t","W","i","d","t","h">>), LP, Id(<<"f","l","a","g">>), EQ, Id(<<"T","r","u","e">>), RP, ARROW, Id(<<"i","n","t">>)>> >>,
      <<<<"G","e","t","L","a","b","e","l">>, <<Id(<<"G","e","t","L","a","b","e","l">>), LP, RP, ARROW, Id(<<"S","t","r","i","n","g">>)>> >>,
      <<<<"G","e","t","S","i","z","e">>, <<Id(<<"G","e","t","S","i","z","e">>), LP, RP, ARROW, Id(<<"S","i","z","e">>)>> >>,
      <<<<"G","e","t","W","i","d","G","e","t">>, <<Id(<<"G","e","t","W","i","d","G","e","t">>), LP, RP, ARROW, Id(<<"i","n","t">>)>> >>,
      <<<<"S","e","t","W","i","d","t","h">>, <<Id(<<"S","e","t","W","i","d","t","h">>), LP, Id(<<"v","a","l","u","e">>), RP>> >>,
      <<<<"S","e","t","W","i","d","t","h">>, <<Id(<<"S","e","t","W","i","d","t","h">>), LP, Id(<<"w","i","d","t","h">>), RP>> >>,
      <<<<"S","e","t","W","i","d","t","h">>, <<Id(<<"S","e","t","W","i","d","t","h">>), LP, Id(<<"v","a","l","u","e">>), COMMA, Id(<<"f","l","a","g">>), EQ, Id(<<"T","r","u","e">>), RP>> >>,
      <<<<"S","e","t","W","i","d","t","h">>, <<Id(<<"S","e","t","W","i","d","t","h">>), LP, Id(<<"v","a","l","u","e">>), RP,
                       Id(<<"S","e","t","W","i","d","t","h">>), LP, Id(<<"v","a","l","u","e">>), COMMA, Id(<<"f","l","a","g">>), RP>> >>,
      <<<<"S","e","t","W","i","d","t","h">>, <<Id(<<"S","e","t","W","i","d","t","h">>), LP, RP>> >>,
      <<<<"S","e","t","W","i","d","t","h">>, <<JUNK>> >>,
      <<<<"S","e","t","L","a","b","e","l">>, <<Id(<<"S","e","t","L","a","b","e","l">>), LP, Id(<<"v","a","l","u","e">>), RP>> >>,
      <<<<"S","e","t","S","i","z","e">>, <<Id(<<"S","e","t","S","i","z","e">>), LP, Id(<<"v","a","l","u","e">>), RP>> >>,
      <<<<"S","e","t","W","i","d","G","e","t">>, <<Id(<<"S","e","t","W","i","d","G","e","t">>), LP, Id(<<"v","a","l","u","e">>), RP>> >>,
      <<<<"S","e","t","W","i","d","S","e","t">>, <<Id(<<"S","e","t","W","i","d","S","e","t">>), LP, Id(<<"v","a","l","u","e">>), RP>> >> }

\* The method tables of at most n methods: name -> docstring
MethodTables(n) ==
    { [name \in {m[1] : m \in ms} |-> (CHOOSE m \in ms : m[1] = name)[2]] :
        ms \in {x \in SUBSET MethodDocs :
                    /\ Cardinality(x) <= n
                    /\ \A a, b \in x : a[1] = b[1] => a = b} }

Classes ==
    { [name |-> <<"F","o","o">>, window |-> k.window, toplevel |-> k.toplevel, event |-> k.event,
       bases |-> k.bases, doc |-> i.doc, initDoc |-> i.initDoc,
       initSignature |-> i.initSignature, methods |-> m] :
        k \in ClassKinds, i \in InitSources, m \in MethodTables(MaxMethods) }

EmptyDict == [k \in {} |-> <<>>]

StubInit ==
    /\ cls \in Classes
    /\ stubAny \in BOOLEAN
    /\ file = <<>>
    /\ setters = EmptyDict
    /\ mi = 0
    /\ stubPc = "header"

StubIdle ==
    /\ cls = <<>>
    /\ stubAny = FALSE
    /\ file = <<>>
    /\ setters = EmptyDict
    /\ mi = 0
    /\ stubPc = "idle"

\* make_stub, up to the class header (called as the command line calls it:
\* hide_mod is empty)
MakeStubHeader ==
    /\ stubPc = "header"
    /\ file' = Append(file, Line(<<"c","l","a","s","s">>, ClassHeader(cls, {})))
    /\ stubPc' = "init"
    /\ UNCHANGED <<cls, stubAny, setters, mi>>

\* make_stub's constructor part
MakeStubInit ==
    /\ stubPc = "init"
    /\ \E res \in {InitLines(cls, stubAny)} :
           IF res.raised
           THEN stubPc' = "raised" /\ file' = file
           ELSE stubPc' = "methods" /\ file' = file \o res.lines
    /\ UNCHANGED <<cls, stubAny, setters, mi>>

\* One round of make_stub's loop over the sorted method names
MakeStubMethod ==
    /\ stubPc = "methods"
    /\ mi < Len(sorted(DOMAIN cls.methods))
    /\ \E name \in {sorted(DOMAIN cls.methods)[mi + 1]} :
           \E res \in {MethodRound(name, cls.methods[name], stubAny, setters)} :
               /\ setters' = res.setters
               /\ file' = file \o res.lines
    /\ mi' = mi + 1
    /\ UNCHANGED <<cls, stubAny, stubPc>>

\* The end of the loop.  The listings of properties, enumerations and other
\* attributes that make_stub prints next read no signature and are left out.
MakeStubMethodsDone ==
    /\ stubPc = "methods"
    /\ mi = Len(sorted(DOMAIN cls.methods))
    /\ stubPc' = "done"
    /\ UNCHANGED <<cls, stubAny, file, setters, mi>>

(***************************************************************************)
(* update.py: the aggregate stub.  A text is the sequence of its lines     *)
(* (the text split at "\n"); an object of the wx namespace is a record of  *)
(* what the script reads of it: its name, the kind of its type, the name   *)
(* of its type, its value or repr, and for classes what it derives from.   *)
(***************************************************************************)
DigitChars == <<"0","1","2","3","4","5","6","7","8","9">>

\* str(n) of an integer
RECURSIVE str_int(_)
str_int(n) ==
    IF n < 0 THEN <<"-">> \o str_int(0 - n)
    ELSE IF n < 10 THEN <<DigitChars[n + 1]>>
    ELSE str_int(n \div 10) \o <<DigitChars[(n % 10) + 1]>>

\* sep.join(strs)
RECURSIVE join(_, _)
join(sep, strs) ==
    IF strs = <<>> THEN <<>>
    ELSE IF Len(strs) = 1 THEN strs[1]
    ELSE strs[1] \o sep \o join(sep, Tail(strs))

\* "\n".join(blocks) (gap = 0) and "\n\n".join(blocks) (gap = 1) as lines, each
\* block being the lines of one str(x)
RECURSIVE join_lines(_, _)
join_lines(gap, blocks) ==
    IF blocks = <<>> THEN << <<>> >>
    ELSE IF Len(blocks) = 1 THEN blocks[1]
    ELSE blocks[1] \o [k \in 1..gap |-> <<>>] \o join_lines(gap, Tail(blocks))

Import(name, mod) == [name |-> name, mod |-> mod]

\* All imports of a group are built with the module of the file they come from.
ImportGroup(imports) == [mod |-> imports[1].mod, imports |-> imports]

\* ImportGroup.__init__ with a test of the first two imports only
ImportGroup_init_first_two(imports) ==
    IF imports = <<>> THEN [raised |-> "AssertionError", mod |-> None, imports |-> imports]
    ELSE IF Len(imports) >= 2 /\ imports[2].mod # imports[1].mod
    THEN [raised |-> "ValueError", mod |-> None, imports |-> imports]
    ELSE [raised |-> "", mod |-> ImportGroup(imports).mod, imports |-> ImportGroup(imports).imports]

\* ImportGroup.__init__ with its assert and its raise: the exception raised
\* ("" for none) and the attributes set
ImportGroup_init(imports) ==
    IF imports = <<>> THEN [raised |-> "AssertionError", mod |-> None, imports |-> imports]
    ELSE IF ~(\A k \in 1..Len(imports) : imports[k].mod = imports[1].mod)
    THEN [raised |-> "ValueError", mod |-> None, imports |-> imports]
    ELSE [raised |-> "", mod |-> ImportGroup(imports).mod, imports |-> ImportGroup(imports).imports]

ImportGroup_str(g) ==
    LET n == Len(g.imports)
        names == [k \in 1..n |-> g.imports[k].name \o <<" ","a","s"," ">> \o g.imports[k].name]
        line == <<"f","r","o","m"," ">> \o g.mod \o <<" ","i","m","p","o","r","t"," ">> \o join(<<","," ">>, names)
    IN  IF Len(line) <= 80 THEN <<line>>
        ELSE <<<<"f","r","o","m"," ">> \o g.mod \o <<" ","i","m","p","o","r","t"," ","(">>>>
             \o [k \in 1..n |-> <<" "," "," "," ">> \o names[k] \o (IF k < n THEN <<",">> ELSE <<>>)]
             \o <<<<" "," "," "," ",")">>>>

\* data = 0 stands for an Anotation built without data
Anotation(name, type, comment, data) ==
    [name |-> name, type |-> type, comment |-> comment, data |-> data]

Anotation_str(a) ==
    IF a.comment # <<>> THEN <<a.name \o <<":"," ">> \o a.type \o <<" "," ","#"," ">> \o a.comment>>
    ELSE <<a.name \o <<":"," ">> \o a.type>>

EnumValue(name, c) == [name |-> name, cls |-> c]

EnumClass(name, values) == [name |-> name, values |-> values]

EnumClass_str(e) ==
    <<<<"c","l","a","s","s"," ">> \o e.name \o <<"(","_","W","x","S","i","p","E","n","u","m","t","y","p","e",")",":">>>>
    \o [k \in 1..Len(e.values) |-> <<" "," "," "," ">> \o e.values[k].name \o <<" ","="," ",".",".",".">>]
    \o << <<>> >>
    \o [k \in 1..Len(e.values) |->
            e.values[k].name \o <<":"," ","L","i","t","e","r","a","l","[">> \o e.name \o <<".">> \o e.values[k].name \o <<"]">>]

Class(name, bases) == [type |-> "Class", name |-> name, bases |-> bases, value |-> <<>>]

Assignment(name, value) ==
    [type |-> "Assignment", name |-> name, bases |-> <<>>, value |-> value]

\* str() of an entry of def_err
Error_str(x) ==
    IF x.type = "Class"
    THEN <<<<"c","l","a","s","s"," ">> \o x.name \o <<"(">> \o join(<<","," ">>, x.bases) \o <<")",":"," ","p","a","s","s">>>>
    ELSE <<x.name \o <<" ","="," ">> \o x.value>>

\* An object of the namespace.  tp is the kind of type(obj):
\*   "sipenum" (an enumeration class), "int", "str", "bytes", "enum" (a value of
\*   an enumeration class), "PyEventBinder", "sip" (an instance of a wrapped
\*   class), "exc" (a class derived from BaseException), "type" (another
\*   class), "function", "module", "other".
Obj(name, tp, tpname) ==
    [name |-> name, tp |-> tp, tpname |-> tpname, ival |-> 0, text |-> <<>>,
     objname |-> <<>>, bases |-> <<>>, ancestors |-> {}, deprecated |-> FALSE]

\* repr(obj)
repr(obj) ==
    IF obj.tp = "int" THEN str_int(obj.ival)
    ELSE IF obj.tp = "str" THEN <<"'">> \o obj.text \o <<"'">>
    ELSE IF obj.tp = "bytes" THEN <<"b","'">> \o obj.text \o <<"'">>
    ELSE obj.text

\* name in d, and d.pop(name), for a dict kept as the sequence of its items
Has(d, name) == \E k \in 1..Len(d) : d[k].name = name

Pop(d, name) == SelectSeq(d, LAMBDA e : e.name # name)

\* d[obj.name] = obj
SetItem(d, obj) ==
    IF Has(d, obj.name) THEN [k \in 1..Len(d) |-> IF d[k].name = obj.name THEN obj ELSE d[k]]
    ELSE Append(d, obj)

\* A node of an override file: a ClassDef, FunctionDef, AnnAssign or another
\* statement.  A decorator is the name it is written as, None when it is no
\* plain name.
Node(kind, name, decorators, fargs, body) ==
    [kind |-> kind, name |-> name, decorators |-> decorators, args |-> fargs, body |-> body]

FArg(name, annotated) == [arg |-> name, annotated |-> annotated]

\* check_has_anotations, from the k-th node of the class body on
RECURSIVE CheckBody(_, _, _, _)
CheckBody(classdef, modname, k, out) ==
    IF k > Len(classdef.body) THEN [raised |-> FALSE, out |-> out]
    ELSE LET node == classdef.body[k]
             where == modname \o <<".">> \o classdef.name \o <<".">> \o node.name
             as == node.args
             self == IF \E d \in 1..Len(node.decorators) :
                            node.decorators[d] = <<"s","t","a","t","i","c","m","e","t","h","o","d">>
                     THEN IF as # <<>> /\ as[1].arg = <<"s","e","l","f">>
                          THEN <<<<"E","r","r","o","r",":"," ","'","s","e","l","f","'"," ","a","r","g","u","m","e","n","t"," ","t","o"," ","s","t","a","t","i","c","m","e","t","h","o","d"," ","a","t"," ">> \o where>>
                          ELSE <<>>
                     ELSE IF as = <<>> \/ as[1].arg # <<"s","e","l","f">>
                          THEN <<<<"E","r","r","o","r",":"," ","m","i","s","s","i","n","g"," ","'","s","e","l","f","'"," ","a","r","g","u","m","e","n","t"," ","t","o"," ","m","e","t","h","o","d"," ","a","t"," ">> \o where>>
                          ELSE <<>>
             miss == SelectSeq(as, LAMBDA a : ~a.annotated /\ a.arg # <<"s","e","l","f">>)
             missing == IF miss # <<>>
                        THEN <<<<"E","r","r","o","r",":"," ","m","e","t","h","o","d"," ">> \o where
                               \o <<" ","i","s"," ","m","i","s","s","i","n","g"," ","a","n","o","t","a","t","i","o","n"," ","f","o","r"," ","a","r","g","u","m","e","n","t","s",":"," ">>
                               \o join(<<","," ">>, [j \in 1..Len(miss) |-> miss[j].arg])>>
                        ELSE <<>>
         IN  IF node.kind # "FunctionDef" THEN CheckBody(classdef, modname, k + 1, out)
             ELSE IF \E d \in 1..Len(node.decorators) : node.decorators[d] = None
             THEN [raised |-> TRUE, out |-> out]
             ELSE CheckBody(classdef, modname, k + 1, out \o self \o missing)

check_has_anotations(classdef, modname) == CheckBody(classdef, modname, 1, <<>>)

\* ScanClassDef with a duplicate class definition raised as an error
ScanClassDef_duplicate_raises(st, node, stem) ==
    LET chk == check_has_anotations(node, stem)
        st1 == [st EXCEPT !.out = @ \o chk.out]
        st2 == [st1 EXCEPT !.i = Append(@, Import(node.name, <<"w","x",".">> \o stem))]
    IN  IF chk.raised THEN [st1 EXCEPT !.raised = TRUE]
        ELSE IF Has(st.mod_dict, node.name)
        THEN [st2 EXCEPT !.mod_dict = Pop(@, node.name),
                         !.classes_stubed = @ \cup {node.name}]
        ELSE IF node.name \in st.classes_stubed
        THEN [st2 EXCEPT !.raised = TRUE]
        ELSE [st2 EXCEPT !.out = @ \o <<<<"E","r","r","o","r",":"," ","c","l","a","s","s"," ">> \o stem \o <<".">> \o node.name
                                        \o <<" ","d","o","e","s"," ","n","o","t"," ","c","o","r","e","s","p","o","n","d"," ","t","o"," ","a","n"," ","o","b","j","e","c","t"," ","i","n"," ","t","h","e"," ","w","x"," ","n","a","m","e","s","p","a","c","e">>,
                                        <<>>>>]

\* The scan's branch for a ClassDef.  st is the state of the scan: mod_dict,
\* classes_stubed, def_import, i, last_overload, what was printed, and whether
\* an exception was raised.
ScanClassDef(st, node, stem) ==
    LET chk == check_has_anotations(node, stem)
        st1 == [st EXCEPT !.out = @ \o chk.out]
        st2 == [st1 EXCEPT !.i = Append(@, Import(node.name, <<"w","x",".">> \o stem))]
    IN  IF chk.raised THEN [st1 EXCEPT !.raised = TRUE]
        ELSE IF Has(st.mod_dict, node.name)
        THEN [st2 EXCEPT !.mod_dict = Pop(@, node.name),
                         !.classes_stubed = @ \cup {node.name}]
        ELSE IF node.name \in st.classes_stubed
        THEN [st2 EXCEPT !.out = Append(@, <<"E","r","r","o","r",":"," ","d","u","p","l","i","c","a","t","e"," ","c","l","a","s","s"," ","d","e","f","i","n","i","t","i","o","n"," ","-"," ">>
                                            \o node.name)]
        ELSE [st2 EXCEPT !.out = @ \o <<<<"E","r","r","o","r",":"," ","c","l","a","s","s"," ">> \o stem \o <<".">> \o node.name
                                        \o <<" ","d","o","e","s"," ","n","o","t"," ","c","o","r","e","s","p","o","n","d"," ","t","o"," ","a","n"," ","o","b","j","e","c","t"," ","i","n"," ","t","h","e"," ","w","x"," ","n","a","m","e","s","p","a","c","e">>,
                                        <<>>>>]

\* The scan's branch for a FunctionDef
ScanFunctionDef(st, node, stem) ==
    LET st1 == IF node.decorators # <<>> THEN [st EXCEPT !.last_overload = node.name]
               ELSE st
        st2 == [st1 EXCEPT !.i = Append(@, Import(node.name, <<"w","x",".">> \o stem))]
    IN  IF node.decorators # <<>> /\ node.decorators[1] # <<"o","v","e","r","l","o","a","d">>
        THEN [st EXCEPT !.raised = TRUE]
        ELSE IF node.decorators # <<>> /\ st.last_overload = node.name
        THEN st
        ELSE IF Has(st.mod_dict, node.name)
        THEN [st2 EXCEPT !.mod_dict = Pop(@, node.name)]
        ELSE [st2 EXCEPT !.out = @ \o <<<<"E","r","r","o","r",":"," ","f","u","n","c","t","i","o","n"," ">> \o stem \o <<".">> \o node.name
                                        \o <<" ","d","o","e","s"," ","n","o","t"," ","c","o","r","e","s","p","o","n","d"," ","t","o"," ","a","n"," ","o","b","j","e","c","t"," ","i","n"," ","t","h","e"," ","w","x"," ","n","a","m","e","s","p","a","c","e">>,
                                        <<>>>>]

\* The scan's branch for an AnnAssign
ScanAnnAssign(st, node, stem) ==
    [st EXCEPT !.i = Append(@, Import(node.name, <<"w","x",".">> \o stem)),
               !.mod_dict = Pop(@, node.name)]

\* One round of the loop over the nodes of a module.  (In the loops below a
\* one-element set binds the state of the loop to its value once.)
ScanNode(st, node, stem) ==
    IF node.kind = "ClassDef" /\ node.name[1] # "_" THEN ScanClassDef(st, node, stem)
    ELSE IF node.kind = "FunctionDef" /\ node.name[1] # "_"
    THEN ScanFunctionDef(st, node, stem)
    ELSE IF node.kind = "AnnAssign" /\ node.name[1] # "_" THEN ScanAnnAssign(st, node, stem)
    ELSE st

RECURSIVE ScanBody(_, _, _, _)
ScanBody(st, body, k, stem) ==
    CHOOSE res \in
        {IF k > Len(body) \/ s.raised THEN s
         ELSE ScanBody(ScanNode(s, body[k], stem), body, k + 1, stem) : s \in {st}} : TRUE

\* One round of the loop over the modules
ScanModule(st, mod) ==
    LET st1 == ScanBody([st EXCEPT !.i = <<>>, !.last_overload = <<>>], mod.body, 1, mod.stem)
    IN  IF st1.raised THEN st1
        ELSE IF st1.i # <<>> THEN [st1 EXCEPT !.def_import = Append(@, ImportGroup(st1.i))]
        ELSE [st1 EXCEPT !.out = Append(@, <<"E","r","r","o","r",":"," ","n","o","t","h","i","n","g"," ","t","o"," ","i","m","p","o","r","t"," ","f","r","o","m"," ","m","o","d","u","l","e",":"," ">>
                                            \o mod.stem)]

RECURSIVE ScanModules(_, _, _)
ScanModules(st, mods, k) ==
    CHOOSE res \in
        {IF k > Len(mods) \/ s.raised THEN s
         ELSE ScanModules(ScanModule(s, mods[k]), mods, k + 1) : s \in {st}} : TRUE

overloads ==
    <<<<<<"P","l","a","t","f","o","r","m","I","n","f","o">>, <<"t","u","p","l","e","[","s","t","r",","," ",".",".",".","]">>>>,
      <<<<"V","E","R","S","I","O","N">>, <<"t","u","p","l","e","[","i","n","t",","," ","i","n","t",","," ","i","n","t",","," ","s","t","r","]">>>>,
      <<<<"T","I","M","E","R","_","C","O","N","T","I","N","U","O","U","S">>, <<"b","o","o","l">>>>,
      <<<<"T","I","M","E","R","_","O","N","E","_","S","H","O","T">>, <<"b","o","o","l">>>>>>

remove ==
    <<<<"P","y","D","a","t","a","O","b","j","e","c","t","S","i","m","p","l","e">>, <<"P","y","R","e","g","i","o","n","I","t","e","r","a","t","o","r">>, <<"d","e","p","r","e","c","a","t","e","d">>, <<"d","e","p","r","e","c","a","t","e","d","M","s","g">>,
      <<"I","m","a","g","e","A","r","r","a","y">>, <<"C","o","m","m","a","n","d","L","i","s","t">>, <<"F","i","l","e","H","i","s","t","o","r","y","M","e","n","u","L","i","s","t">>, <<"M","e","n","u","I","t","e","m","L","i","s","t">>,
      <<"M","e","n","u","L","i","s","t">>, <<"P","o","i","n","t","L","i","s","t">>, <<"S","i","z","e","r","I","t","e","m","L","i","s","t">>, <<"W","i","n","d","o","w","L","i","s","t">>>>

\* mod_dict.pop(name) for every name of names; raises at the first missing one
RECURSIVE PopAll(_, _, _)
PopAll(d, names, k) ==
    IF k > Len(names) THEN [raised |-> FALSE, mod_dict |-> d]
    ELSE IF ~Has(d, names[k]) THEN [raised |-> TRUE, mod_dict |-> d]
    ELSE PopAll(Pop(d, names[k]), names, k + 1)

\* The comment of an unstubbed class
ClassComment(obj) ==
    IF "Dialog" \in obj.ancestors THEN <<"d","i","a","l","o","g">>
    ELSE IF "Control" \in obj.ancestors THEN <<"c","o","n","t","r","o","l">>
    ELSE IF "Window" \in obj.ancestors THEN <<"w","i","n","d","o","w">>
    ELSE <<>>

\* One round of the classification loop.  b holds the buckets and what was
\* printed.
ClassifyOne(b, obj) ==
    LET name == obj.name
    IN  IF startswith(name, <<"_">>) \/ startswith(name, <<"t","e","s","t">>) \/ endswith(name, <<"_","i","t","e","r","a","t","o","r">>)
        THEN b
        ELSE IF startswith(name, <<"w","x","E","V","T">>)
        THEN [b EXCEPT !.def_evt = Append(@, Anotation(name, <<"_","E","v","e","n","t","T","y","p","e">>, <<>>, 0))]
        ELSE IF obj.tp = "sipenum"
        THEN [b EXCEPT !.def_enum = Append(@, EnumClass(name, <<>>))]
        ELSE IF obj.tp = "int"
        THEN [b EXCEPT !.def_const =
                    Append(@, Anotation(name, <<"L","i","t","e","r","a","l","[">> \o repr(obj) \o <<"]">>, <<>>, 1))]
        ELSE IF obj.tp \in {"str", "bytes"}
        THEN [b EXCEPT !.def_const =
                    Append(@, Anotation(name, <<"L","i","t","e","r","a","l","[">> \o repr(obj) \o <<"]">>, <<>>, 2))]
        ELSE IF obj.tp = "enum"
        THEN [b EXCEPT !.def_val =
                    IF obj.tpname \in DOMAIN @
                    THEN [@ EXCEPT ![obj.tpname] = Append(@, EnumValue(name, obj.tpname))]
                    ELSE (obj.tpname :> <<EnumValue(name, obj.tpname)>>) @@ @]
        ELSE IF obj.tp = "PyEventBinder"
        THEN [b EXCEPT !.def_const = Append(@, Anotation(name, obj.tpname, <<>>, 4))]
        ELSE IF obj.tp = "sip"
        THEN [b EXCEPT !.def_const = Append(@, Anotation(name, obj.tpname, <<>>, 3))]
        ELSE IF obj.tp = "exc"
        THEN IF name = obj.objname
             THEN [b EXCEPT !.def_err = Append(@, Class(name, obj.bases))]
             ELSE [b EXCEPT !.def_err = Append(@, Assignment(name, obj.objname))]
        ELSE IF obj.tp = "type"
        THEN IF obj.deprecated THEN b
             ELSE [b EXCEPT !.def_undef =
                        Append(@, Anotation(name, <<"A","n","y">>, ClassComment(obj), 0))]
        ELSE IF obj.tp = "function"
        THEN IF obj.deprecated THEN b
             ELSE [b EXCEPT !.def_undef = Append(@, Anotation(name, <<"A","n","y">>, <<"f","u","n","c","t","i","o","n">>, 0))]
        ELSE IF obj.tp = "module" THEN b
        ELSE [b EXCEPT !.out = Append(@, <<"E","r","r","o","r",":"," ","E","n","c","o","u","n","t","e","r","e","d"," ","u","n","k","n","o","w","n"," ","o","b","j","e","c","t"," ","o","f"," ","t","y","p","e"," ","'">>
                                          \o obj.tpname \o <<"'"," ","a","t"," ","n","a","m","e"," ","'">> \o name
                                          \o <<"'",":"," ">> \o repr(obj))]

RECURSIVE ClassifyAll(_, _, _)
ClassifyAll(b, d, k) ==
    CHOOSE res \in
        {IF k > Len(d) THEN v ELSE ClassifyAll(ClassifyOne(v, d[k]), d, k + 1) :
            v \in {b}} : TRUE

\* The loop "enum.values = def_val.pop(enum.name)" from the k-th class on;
\* def_val is a defaultdict, whose pop raises KeyError for a missing key
RECURSIVE PartitionFrom(_, _, _)
PartitionFrom(enums, val, k) ==
    IF k > Len(enums) THEN [raised |-> FALSE, def_enum |-> enums, def_val |-> val]
    ELSE IF enums[k].name \notin DOMAIN val
    THEN [raised |-> TRUE, def_enum |-> enums, def_val |-> val]
    ELSE PartitionFrom([enums EXCEPT ![k].values = val[enums[k].name]],
                       [c \in DOMAIN val \ {enums[k].name} |-> val[c]], k + 1)

\* defs.sort(key=lambda obj: obj.name)
SortByName(defs) == StableSort(defs, StrRanks([k \in 1..Len(defs) |-> defs[k].name]))

\* SortConst without the last sort, the one by data
SortConst_no_data(defs) ==
    LET byName == SortByName(defs)
    IN  StableSort(byName, StrRanks([k \in 1..Len(byName) |-> prefix(byName[k].type, 7)]))

\* The three sorts of def_const: by name, then by type[:7], then by data
SortConst(defs) ==
    LET byName == SortByName(defs)
        byType == StableSort(byName,
                             StrRanks([k \in 1..Len(byName) |-> prefix(byName[k].type, 7)]))
    IN  StableSort(byType, [k \in 1..Len(byType) |-> byType[k].data])

\* The two sorts of def_err: by name, then assignments at the end
SortErr(defs) ==
    LET byName == SortByName(defs)
    IN  StableSort(byName, [k \in 1..Len(byName) |->
                                IF byName[k].type # "Class" THEN 1 ELSE 0])

Quotes == <<"\"", "\"", "\"">>

\* The character U+0060, which a TLA+ string cannot hold
Backtick == <<"U+0060">>

\* template.format(...)
template(undef, imp, err, enum, const, evt) ==
    <<<<>>,
      <<"#"," ","T","h","i","s"," ","s","t","u","b"," ","f","i","l","e"," ","i","s"," ","a","u","t","o","m","a","t","i","c","l","y"," ","g","e","n","e","r","a","t","e","d","."," ","D","o"," ","n","o","t"," ","m","o","d","i","f","y",".">>,
      <<>>,
      <<"f","r","o","m"," ","t","y","p","i","n","g"," ","i","m","p","o","r","t"," ","T","y","p","e",","," ","L","i","t","e","r","a","l",","," ","N","e","w","T","y","p","e",","," ","A","n","y",","," ","S","u","p","p","o","r","t","s","I","n","t">>,
      <<"f","r","o","m"," ","e","n","u","m"," ","i","m","p","o","r","t"," ","I","n","t","F","l","a","g">>,
      <<>>,
      <<"#"," ","u","n","s","t","u","b","b","e","d"," ","c","l","a","s","s","e","s"," ","a","n","d"," ","f","u","n","c","t","i","o","n","s",":">>>>
    \o undef
    \o <<<<>>, <<"_","W","i","n","d","o","w","I","D"," ","="," ","S","u","p","p","o","r","t","s","I","n","t">>, <<>>>>
    \o imp
    \o <<<<>>, <<>>>>
    \o err
    \o <<<<>>, <<>>,
         <<"c","l","a","s","s"," ","_","W","x","S","i","p","E","n","u","m","t","y","p","e","(","I","n","t","F","l","a","g",")",":">>,
         <<" "," "," "," ">> \o Quotes \o <<"D","r","o","p"," ","i","n"," ","f","o","r"," ","s","i","p",".","e","n","u","m","t","y","p","e">>,
         <<" "," "," "," ">>,
         <<" "," "," "," ","w","x"," ","u","s","e","s"," ","s","i","p",".","e","n","u","m","t","y","p","e"," ","i","n","t","e","r","n","a","l","y"," ","f","o","r"," ","e","n","u","m","e","r","a","t","i","o","n","s",",">>,
         <<" "," "," "," ","t","e","c","n","i","c","a","l","y"," ","t","h","i","s"," ","i","s"," ","n","o","t"," ","a"," ","s","u","b","c","l","a","s","s"," ","o","f"," ">> \o Backtick \o <<"i","n","t">> \o Backtick
            \o <<" ","o","r"," ">> \o Backtick \o <<"E","n","u","m">> \o Backtick \o <<",">>,
         <<" "," "," "," ","b","u","t"," ","i","t"," ","b","e","h","a","v","e","s"," ","l","i","k","e"," ","o","n","e",".">>,
         <<" "," "," "," ">> \o Quotes,
         <<>>>>
    \o enum
    \o <<<<>>, <<"#"," ","c","o","n","s","t","a","n","t","s",":">>>>
    \o const
    \o <<<<>>, <<"_","E","v","e","n","t","T","y","p","e"," ","="," ","N","e","w","T","y","p","e","(","'","_","E","v","e","n","t","T","y","p","e","'",","," ","i","n","t",")">>, <<>>>>
    \o evt
    \o <<<<>>, <<>>>>

\* The text written to init_path
Render(undef, imp, err, enum, const, evt) ==
    template(join_lines(0, [k \in 1..Len(undef) |-> Anotation_str(undef[k])]),
             join_lines(0, [k \in 1..Len(imp) |-> ImportGroup_str(imp[k])]),
             join_lines(1, [k \in 1..Len(err) |-> Error_str(err[k])]),
             join_lines(1, [k \in 1..Len(enum) |-> EnumClass_str(enum[k])]),
             join_lines(0, [k \in 1..Len(const) |-> Anotation_str(const[k])]),
             join_lines(0, [k \in 1..Len(evt) |-> Anotation_str(evt[k])]))

(***************************************************************************)
(* update.py: the namespaces and override files the model runs on.         *)
(***************************************************************************)
NsInt(name, v) == [Obj(name, "int", <<"i","n","t">>) EXCEPT !.ival = v]
NsStr(name, s) == [Obj(name, "str", <<"s","t","r">>) EXCEPT !.text = s]
NsEnumType(name) == Obj(name, "sipenum", <<"e","n","u","m","t","y","p","e">>)
NsEnumValue(name, owner) == Obj(name, "enum", owner)
NsBinder(name) == Obj(name, "PyEventBinder", <<"P","y","E","v","e","n","t","B","i","n","d","e","r">>)
NsSip(name, tpname) == Obj(name, "sip", tpname)
NsExc(name, objname, bases) == [Obj(name, "exc", <<"t","y","p","e">>) EXCEPT !.objname = objname, !.bases = bases]
NsClass(name, ancestors) == [Obj(name, "type", <<"w","r","a","p","p","e","r","t","y","p","e">>) EXCEPT !.ancestors = ancestors]
NsDeprecatedClass(name) == [Obj(name, "type", <<"t","y","p","e">>) EXCEPT !.deprecated = TRUE]
NsFunc(name) == Obj(name, "function", <<"b","u","i","l","t","i","n","_","f","u","n","c","t","i","o","n","_","o","r","_","m","e","t","h","o","d">>)
NsModule(name) == Obj(name, "module", <<"m","o","d","u","l","e">>)
NsOther(name, tpname, text) == [Obj(name, "other", tpname) EXCEPT !.text = text]

\* What every namespace of the model holds: the names of overloads and remove,
\* the names the script reads as attributes of wx (Object, Alignment,
\* PyEventBinder, Dialog, Control, Window, CURSOR_NONE), and StockCursor bound
\* to the deprecated class that hides the enumeration CURSOR_NONE belongs to.
NsBase ==
    <<NsStr(<<"_","_","n","a","m","e","_","_">>, <<"w","x">>),
      NsOther(<<"P","l","a","t","f","o","r","m","I","n","f","o">>, <<"t","u","p","l","e">>, <<"(","'","_","_","W","X","G","T","K","_","_","'",","," ","'","g","t","k","3","'",")">>),
      NsOther(<<"V","E","R","S","I","O","N">>, <<"t","u","p","l","e">>, <<"(","4",","," ","2",","," ","1",","," ","'","'",")">>),
      NsOther(<<"T","I","M","E","R","_","C","O","N","T","I","N","U","O","U","S">>, <<"b","o","o","l">>, <<"F","a","l","s","e">>),
      NsOther(<<"T","I","M","E","R","_","O","N","E","_","S","H","O","T">>, <<"b","o","o","l">>, <<"T","r","u","e">>)>>
    \o [k \in 1..Len(remove) |->
            IF startswith(remove[k], <<"d","e","p","r","e","c","a","t","e","d">>) THEN NsFunc(remove[k])
            ELSE NsClass(remove[k], {})]
    \o <<NsDeprecatedClass(<<"S","t","o","c","k","C","u","r","s","o","r">>),
         NsEnumValue(<<"C","U","R","S","O","R","_","N","O","N","E">>, <<"S","t","o","c","k","C","u","r","s","o","r">>),
         NsClass(<<"O","b","j","e","c","t">>, {}),
         NsClass(<<"W","i","n","d","o","w">>, {"Window"}),
         NsClass(<<"C","o","n","t","r","o","l">>, {"Window", "Control"}),
         NsClass(<<"D","i","a","l","o","g">>, {"Window", "Dialog"}),
         NsClass(<<"P","y","E","v","e","n","t","B","i","n","d","e","r">>, {}),
         NsEnumValue(<<"A","L","I","G","N","_","R","I","G","H","T">>, <<"A","l","i","g","n","m","e","n","t">>),
         NsEnumType(<<"A","l","i","g","n","m","e","n","t">>),
         NsEnumValue(<<"A","L","I","G","N","_","L","E","F","T">>, <<"A","l","i","g","n","m","e","n","t">>)>>

NsClasses ==
    <<NsClass(<<"S","i","z","e">>, {}),
      NsClass(<<"G","e","n","e","r","i","c","P","r","o","g","r","e","s","s","D","i","a","l","o","g">>, {"Window", "Dialog"}),
      NsClass(<<"B","u","t","t","o","n">>, {"Window", "Control"}),
      NsFunc(<<"G","e","t","A","p","p">>),
      NsSip(<<"D","e","f","a","u","l","t","S","i","z","e">>, <<"S","i","z","e">>)>>

\* A value of an enumeration class the namespace does not bind
NsOrphanValue == <<NsEnumValue(<<"I","D","_","O","K">>, <<"S","t","a","n","d","a","r","d","I","D">>)>>

\* An enumeration class no value of which the namespace binds
NsEmptyEnum == <<NsEnumType(<<"D","i","r","e","c","t","i","o","n">>)>>

NsConsts ==
    <<NsSip(<<"N","u","l","l","G","r","a","p","h","i","c","s","P","e","n">>, <<"G","r","a","p","h","i","c","s","P","e","n">>),
      NsInt(<<"I","D","_","A","N","Y">>, 0 - 1),
      NsBinder(<<"E","V","T","_","B","U","T","T","O","N">>),
      NsStr(<<"F","i","l","e","S","e","l","e","c","t","o","r","P","r","o","m","p","t","S","t","r">>, <<"S","e","l","e","c","t"," ","a"," ","f","i","l","e">>),
      NsSip(<<"N","u","l","l","G","r","a","p","h","i","c","s","B","r","u","s","h">>, <<"G","r","a","p","h","i","c","s","B","r","u","s","h">>),
      NsInt(<<"w","x","E","V","T","_","B","U","T","T","O","N">>, 10012),
      NsSip(<<"B","L","A","C","K">>, <<"C","o","l","o","u","r">>),
      NsSip(<<"G","r","a","p","h","i","c","s","P","e","n","D","e","f","a","u","l","t">>, <<"G","r","a","p","h","i","c","s","P","e","n">>),
      NsInt(<<"A","C","C","E","L","_","A","L","T">>, 1),
      NsExc(<<"P","y","A","s","s","e","r","t","i","o","n","E","r","r","o","r">>, <<"w","x","A","s","s","e","r","t","i","o","n","E","r","r","o","r">>, <<<<"A","s","s","e","r","t","i","o","n","E","r","r","o","r">>>>),
      NsExc(<<"w","x","A","s","s","e","r","t","i","o","n","E","r","r","o","r">>, <<"w","x","A","s","s","e","r","t","i","o","n","E","r","r","o","r">>, <<<<"A","s","s","e","r","t","i","o","n","E","r","r","o","r">>>>),
      NsExc(<<"P","y","N","o","A","p","p","E","r","r","o","r">>, <<"P","y","N","o","A","p","p","E","r","r","o","r">>, <<<<"R","u","n","t","i","m","e","E","r","r","o","r">>>>),
      NsModule(<<"a","d","v">>),
      NsFunc(<<"t","e","s","t","C","o","l","o","u","r">>),
      NsOther(<<"F","o","o","_","i","t","e","r","a","t","o","r">>, <<"i","t","e","r","a","t","o","r">>, <<"<","i","t","e","r","a","t","o","r",">">>),
      NsOther(<<"N","u","l","l","I","c","o","n","P","t","r">>, <<"N","o","n","e","T","y","p","e">>, <<"N","o","n","e">>)>>

NsGroups == <<NsClasses, NsOrphanValue, NsEmptyEnum, NsConsts>>

RECURSIVE Pick(_, _)
Pick(groups, chosen) ==
    IF groups = <<>> THEN <<>>
    ELSE (IF Len(groups) \in chosen THEN groups[Len(groups)] ELSE <<>>)
         \o Pick(SubSeq(groups, 1, Len(groups) - 1), chosen)

\* The namespaces: the base, whole or without one of the names the script
\* pops, and any of the groups
Namespaces ==
    {Pop(NsBase, missing) \o Pick(NsGroups, chosen) :
        missing \in {<<>>, <<"V","E","R","S","I","O","N">>, <<"d","e","p","r","e","c","a","t","e","d","M","s","g">>},
        chosen \in SUBSET (1..Len(NsGroups))}

Method(name, decorators, fargs) == Node("FunctionDef", name, decorators, fargs, <<>>)

OverrideFiles ==
    {[stem |-> <<"_","c","o","r","e">>,
      body |-> <<Node("Import", <<>>, <<>>, <<>>, <<>>),
                 Node("ClassDef", <<"S","i","z","e">>, <<>>, <<>>,
                      <<Method(<<"_","_","i","n","i","t","_","_">>, <<>>, <<FArg(<<"s","e","l","f">>, FALSE), FArg(<<"w","i","d","t","h">>, FALSE)>>),
                        Method(<<"G","e","t">>, <<>>, <<>>)>>),
                 Node("FunctionDef", <<"G","e","t","A","p","p">>, <<<<"o","v","e","r","l","o","a","d">>>>, <<>>, <<>>),
                 Node("FunctionDef", <<"G","e","t","A","p","p">>, <<<<"o","v","e","r","l","o","a","d">>>>, <<>>, <<>>),
                 Node("AnnAssign", <<"D","e","f","a","u","l","t","S","i","z","e">>, <<>>, <<>>, <<>>),
                 Node("ClassDef", <<"_","P","r","i","v","a","t","e">>, <<>>, <<>>, <<>>)>>],
     [stem |-> <<"_","w","i","n","d","o","w","s">>,
      body |-> <<Node("ClassDef", <<"W","i","n","d","o","w">>, <<>>, <<>>,
                      <<Method(<<"F","r","o","m","D","I","P">>, <<<<"s","t","a","t","i","c","m","e","t","h","o","d">>>>,
                               <<FArg(<<"s","e","l","f">>, FALSE), FArg(<<"d">>, TRUE)>>)>>),
                 Node("ClassDef", <<"S","i","z","e">>, <<>>, <<>>, <<>>),
                 Node("ClassDef", <<"G","e","n","e","r","i","c","P","r","o","g","r","e","s","s","D","i","a","l","o","g">>, <<>>, <<>>, <<>>),
                 Node("FunctionDef", <<"F","i","n","d","W","i","n","d","o","w">>, <<>>, <<>>, <<>>)>>],
     [stem |-> <<"_","e","n","u","m","s">>,
      body |-> <<Node("ClassDef", <<"A","l","i","g","n","m","e","n","t">>, <<>>, <<>>, <<>>)>>],
     [stem |-> <<"_","b","a","d">>,
      body |-> <<Node("ClassDef", <<"B","u","t","t","o","n">>, <<>>, <<>>, <<>>),
                 Node("FunctionDef", <<"G","e","t","A","p","p">>, <<<<"s","t","a","t","i","c","m","e","t","h","o","d">>>>, <<>>, <<>>)>>],
     [stem |-> <<"_","e","m","p","t","y">>,
      body |-> <<Node("Import", <<>>, <<>>, <<>>, <<>>),
                 Node("FunctionDef", <<"_","h","e","l","p","e","r">>, <<>>, <<>>, <<>>)>>]}

\* The aggregate stub itself, which "_*.pyi" matches too
InitFile == [stem |-> <<"_","_","i","n","i","t","_","_">>, body |-> <<>>]

\* The orders in which glob can yield a set of files
Orders(fs) ==
    {o \in [1..Cardinality(fs) -> fs] : \A f \in fs : \E k \in 1..Cardinality(fs) : o[k] = f}

OldText == <<<<"#"," ","t","h","e"," ","a","g","g","r","e","g","a","t","e"," ","s","t","u","b"," ","o","f"," ","a","n"," ","e","a","r","l","i","e","r"," ","v","e","r","s","i","o","n">>>>

OldTree == [exists |-> TRUE, init |-> OldText, files |-> {}]

NoTree == [exists |-> FALSE, init |-> <<>>, files |-> {}]

EmptyDefVal == [c \in {} |-> <<>>]

(***************************************************************************)
(* update.py: the steps of the script.                                     *)
(***************************************************************************)
UpdateInit ==
    /\ namespace \in Namespaces
    /\ stub_files \in {fs \in SUBSET OverrideFiles : Cardinality(fs) <= MaxFiles}
    /\ pkg_stubs \in {NoTree, OldTree}
    /\ start_pkg = pkg_stubs
    /\ init_file = OldText
    /\ start_file = OldText
    /\ prev_text = None
    /\ modules = <<>>
    /\ mod_dict = <<>>
    /\ classes_stubed = {}
    /\ def_import = <<>>
    /\ def_undef = <<>> /\ def_const = <<>> /\ def_evt = <<>>
    /\ def_err = <<>> /\ def_enum = <<>>
    /\ def_val = EmptyDefVal
    /\ stdout = <<>>
    /\ updPc = "start"
    /\ failedIn = ""
    /\ run = 0

UpdateIdle ==
    /\ namespace = <<>>
    /\ stub_files = {}
    /\ pkg_stubs = NoTree
    /\ start_pkg = NoTree
    /\ init_file = <<>>
    /\ start_file = <<>>
    /\ prev_text = None
    /\ modules = <<>>
    /\ mod_dict = <<>>
    /\ classes_stubed = {}
    /\ def_import = <<>>
    /\ def_undef = <<>> /\ def_const = <<>> /\ def_evt = <<>>
    /\ def_err = <<>> /\ def_enum = <<>>
    /\ def_val = EmptyDefVal
    /\ stdout = <<>>
    /\ updPc = "idle"
    /\ failedIn = ""
    /\ run = 0

\* Whether the run that ended wrote the aggregate stub
Wrote == updPc = "done" \/ (updPc = "raised" /\ failedIn \in {"summary", "rmtree"})

\* The script starts: it copies the namespace, binds StockCursor to the
\* enumeration class, and lists the override files in the order glob yields.
Start ==
    /\ updPc \in {"start", "done", "raised"}
    /\ run < MaxRuns
    /\ run' = run + 1
    /\ prev_text' = IF Wrote THEN init_file ELSE None
    /\ start_file' = init_file
    /\ start_pkg' = pkg_stubs
    /\ mod_dict' = SetItem(namespace, NsEnumType(<<"S","t","o","c","k","C","u","r","s","o","r">>))
    /\ \E o \in Orders(stub_files \cup {InitFile}) :
            modules' = SelectSeq(o, LAMBDA p : isidentifier(p.stem) /\ p.stem[Len(p.stem)] # "_")
    /\ classes_stubed' = {}
    /\ def_import' = <<>>
    /\ def_undef' = <<>> /\ def_const' = <<>> /\ def_evt' = <<>>
    /\ def_err' = <<>> /\ def_enum' = <<>>
    /\ def_val' = EmptyDefVal
    /\ stdout' = <<>>
    /\ failedIn' = ""
    /\ updPc' = "scan"
    /\ UNCHANGED <<namespace, stub_files, init_file, pkg_stubs>>

\* The loop over the override files
ScanOverrides ==
    /\ updPc = "scan"
    /\ LET st == ScanModules([mod_dict |-> mod_dict, classes_stubed |-> classes_stubed,
                              def_import |-> def_import, i |-> <<>>,
                              last_overload |-> <<>>, out |-> stdout, raised |-> FALSE],
                             modules, 1)
       IN  /\ mod_dict' = st.mod_dict
           /\ classes_stubed' = st.classes_stubed
           /\ def_import' = st.def_import
           /\ stdout' = st.out
           /\ IF st.raised THEN updPc' = "raised" /\ failedIn' = "scan"
              ELSE updPc' = "overloads" /\ failedIn' = failedIn
    /\ UNCHANGED <<namespace, stub_files, modules, def_undef, def_const, def_evt, def_err,
                   def_enum, def_val, init_file, pkg_stubs, run, prev_text, start_file,
                   start_pkg>>

\* The loop over overloads.  The annotations appended before a KeyError stay.
Overloads ==
    /\ updPc = "overloads"
    /\ LET names == [k \in 1..Len(overloads) |-> overloads[k][1]]
           res == PopAll(mod_dict, names, 1)
           done == Len(mod_dict) - Len(res.mod_dict)
       IN  /\ mod_dict' = res.mod_dict
           /\ def_const' = def_const \o [k \in 1..done |->
                                Anotation(overloads[k][1], overloads[k][2], <<>>, 3)]
           /\ IF res.raised THEN updPc' = "raised" /\ failedIn' = "overloads"
              ELSE updPc' = "remove" /\ failedIn' = failedIn
    /\ UNCHANGED <<namespace, stub_files, modules, classes_stubed, def_import, def_undef,
                   def_evt, def_err, def_enum, def_val, stdout, init_file, pkg_stubs, run,
                   prev_text, start_file, start_pkg>>

\* The loop over remove
Remove ==
    /\ updPc = "remove"
    /\ LET res == PopAll(mod_dict, remove, 1)
       IN  /\ mod_dict' = res.mod_dict
           /\ IF res.raised THEN updPc' = "raised" /\ failedIn' = "remove"
              ELSE updPc' = "classify" /\ failedIn' = failedIn
    /\ UNCHANGED <<namespace, stub_files, modules, classes_stubed, def_import, def_undef,
                   def_const, def_evt, def_err, def_enum, def_val, stdout, init_file,
                   pkg_stubs, run, prev_text, start_file, start_pkg>>

\* The classification loop; nothing in it raises
Classify ==
    /\ updPc = "classify"
    /\ LET b == ClassifyAll([def_undef |-> def_undef, def_const |-> def_const,
                             def_evt |-> def_evt, def_err |-> def_err,
                             def_enum |-> def_enum, def_val |-> def_val, out |-> stdout],
                            mod_dict, 1)
       IN  /\ def_undef' = b.def_undef
           /\ def_const' = b.def_const
           /\ def_evt' = b.def_evt
           /\ def_err' = b.def_err
           /\ def_enum' = b.def_enum
           /\ def_val' = b.def_val
           /\ stdout' = b.out
    /\ updPc' = "partition"
    /\ UNCHANGED <<namespace, stub_files, modules, mod_dict, classes_stubed, def_import,
                   init_file, pkg_stubs, run, prev_text, start_file, start_pkg, failedIn>>

\* The loop that hands every enumeration class its values
Partition ==
    /\ updPc = "partition"
    /\ LET res == PartitionFrom(def_enum, def_val, 1)
       IN  /\ def_enum' = res.def_enum
           /\ def_val' = res.def_val
           /\ IF res.raised THEN updPc' = "raised" /\ failedIn' = "partition"
              ELSE updPc' = "sort" /\ failedIn' = failedIn
    /\ UNCHANGED <<namespace, stub_files, modules, mod_dict, classes_stubed, def_import,
                   def_undef, def_const, def_evt, def_err, stdout, init_file, pkg_stubs,
                   run, prev_text, start_file, start_pkg>>

\* Sort that goes on to the removal of the installed tree
Sort_then_rmtree ==
    /\ updPc = "sort"
    /\ def_undef' = SortByName(def_undef)
    /\ def_enum' = SortByName(def_enum)
    /\ def_const' = SortConst(def_const)
    /\ def_evt' = SortByName(def_evt)
    /\ def_err' = SortErr(def_err)
    /\ updPc' = "rmtree"
    /\ UNCHANGED <<namespace, stub_files, modules, mod_dict, classes_stubed, def_import,
                   def_val, stdout, init_file, pkg_stubs, run, prev_text, start_file,
                   start_pkg, failedIn>>

\* The sorts of the buckets
Sort ==
    /\ updPc = "sort"
    /\ def_undef' = SortByName(def_undef)
    /\ def_enum' = SortByName(def_enum)
    /\ def_const' = SortConst(def_const)
    /\ def_evt' = SortByName(def_evt)
    /\ def_err' = SortErr(def_err)
    /\ updPc' = "open"
    /\ UNCHANGED <<namespace, stub_files, modules, mod_dict, classes_stubed, def_import,
                   def_val, stdout, init_file, pkg_stubs, run, prev_text, start_file,
                   start_pkg, failedIn>>

\* init_path.open(mode="w"): the file is emptied
Open ==
    /\ updPc = "open"
    /\ init_file' = << <<>> >>
    /\ updPc' = "write"
    /\ UNCHANGED <<namespace, stub_files, modules, mod_dict, classes_stubed, def_import,
                   def_undef, def_const, def_evt, def_err, def_enum, def_val, stdout,
                   pkg_stubs, run, prev_text, start_file, start_pkg, failedIn>>

\* file.write(template.format(...)) and the end of the with block
Write ==
    /\ updPc = "write"
    /\ init_file' = Render(def_undef, def_import, def_err, def_enum, def_const, def_evt)
    /\ updPc' = "summary"
    /\ UNCHANGED <<namespace, stub_files, modules, mod_dict, classes_stubed, def_import,
                   def_undef, def_const, def_evt, def_err, def_enum, def_val, stdout,
                   pkg_stubs, run, prev_text, start_file, start_pkg, failedIn>>

\* The summary line; the percentage divides by all_
Summary ==
    /\ updPc = "summary"
    /\ LET done == Cardinality(classes_stubed)
           all_ == done + Len(def_undef)
       IN  IF all_ = 0
           THEN updPc' = "raised" /\ failedIn' = "summary" /\ stdout' = stdout
           ELSE /\ stdout' = Append(stdout, str_int(done) \o <<" ","o","u","t"," ","o","f"," ">> \o str_int(all_)
                                    \o <<" ","c","l","a","s","s","e","s"," ","o","r"," ","f","u","n","c","t","i","o","n","s"," ","d","o","n","e"," ","(">>
                                    \o str_int((100 * done) \div all_) \o <<"%",")",".">>)
                /\ updPc' = "rmtree"
                /\ failedIn' = failedIn
    /\ UNCHANGED <<namespace, stub_files, modules, mod_dict, classes_stubed, def_import,
                   def_undef, def_const, def_evt, def_err, def_enum, def_val, init_file,
                   pkg_stubs, run, prev_text, start_file, start_pkg>>

\* rmtree(pkg_stubs); it raises when there is no installed tree
Rmtree ==
    /\ updPc = "rmtree"
    /\ IF ~pkg_stubs.exists
       THEN updPc' = "raised" /\ failedIn' = "rmtree" /\ pkg_stubs' = pkg_stubs
       ELSE updPc' = "copytree" /\ failedIn' = failedIn /\ pkg_stubs' = NoTree
    /\ UNCHANGED <<namespace, stub_files, modules, mod_dict, classes_stubed, def_import,
                   def_undef, def_const, def_evt, def_err, def_enum, def_val, stdout,
                   init_file, run, prev_text, start_file, start_pkg>>

\* copytree(stub_dir, pkg_stubs)
Copytree ==
    /\ updPc = "copytree"
    /\ pkg_stubs' = [exists |-> TRUE, init |-> init_file, files |-> {f.stem : f \in stub_files}]
    /\ updPc' = "done"
    /\ UNCHANGED <<namespace, stub_files, modules, mod_dict, classes_stubed, def_import,
                   def_undef, def_const, def_evt, def_err, def_enum, def_val, stdout,
                   init_file, run, prev_text, start_file, start_pkg, failedIn>>

(***************************************************************************)
(* The specifications.                                                     *)
(***************************************************************************)
(***************************************************************************)
(* stub-outliner.py: a call of Signature(parsed, init, meth, add_any).     *)
(***************************************************************************)
\* What func gives for one match: its name, its argument texts, its return
ParsedResults ==
    { [name |-> <<"S","e","t","S","i","z","e">>, args |-> as, return |-> rt] :
        as \in SeqsUpTo(RawArgs, MaxArgs), rt \in {<<"N","o","n","e">>, <<"S","t","r","i","n","g">>} }

SignatureKwargs == [init : BOOLEAN, meth : BOOLEAN, add_any : BOOLEAN]

SigInit ==
    /\ sig_parsed \in ParsedResults
    /\ sig_kw \in SignatureKwargs
    /\ sig_built = None
    /\ sigPc = "call"

SigIdle ==
    /\ sig_parsed = None
    /\ sig_kw = None
    /\ sig_built = None
    /\ sigPc = "idle"

SignatureCall ==
    /\ sigPc = "call"
    /\ sig_built' = Signature(sig_parsed, sig_kw)
    /\ sigPc' = "built"
    /\ UNCHANGED <<sig_parsed, sig_kw>>

(***************************************************************************)
(* stub-outliner.py: write_recursive.  Classes are numbered, class 1 is    *)
(* the one the walk starts from; a base numbered 0 is object or the sip    *)
(* wrapper.  Two classes may bear one name, as a deprecated alias and the  *)
(* class it stands for do.                                                 *)
(***************************************************************************)
WalkClass(name, bases, subclasses) ==
    [name |-> name, bases |-> bases, subclasses |-> subclasses]

\* Window > Control > Button > ToggleButton
Chain ==
    << WalkClass(<<"W","i","n","d","o","w">>, <<0>>, <<2>>),
       WalkClass(<<"C","o","n","t","r","o","l">>, <<1>>, <<3>>),
       WalkClass(<<"B","u","t","t","o","n">>, <<2>>, <<4>>),
       WalkClass(<<"T","o","g","g","l","e","B","u","t","t","o","n">>, <<3>>, <<>>) >>

\* ComboCtrl derives from Control and from TextEntry, both under Object
Diamond ==
    << WalkClass(<<"O","b","j","e","c","t">>, <<0>>, <<2, 3>>),
       WalkClass(<<"T","e","x","t","E","n","t","r","y">>, <<1>>, <<4>>),
       WalkClass(<<"C","o","n","t","r","o","l">>, <<1>>, <<4>>),
       WalkClass(<<"C","o","m","b","o","C","t","r","l">>, <<3, 2>>, <<>>) >>

\* Class 2 is an alias class named Timer like its parent, with a subclass
Alias ==
    << WalkClass(<<"T","i","m","e","r">>, <<0>>, <<2, 3>>),
       WalkClass(<<"T","i","m","e","r">>, <<1>>, <<4>>),
       WalkClass(<<"P","y","T","i","m","e","r">>, <<1>>, <<>>),
       WalkClass(<<"O","l","d","T","i","m","e","r">>, <<2>>, <<>>) >>

\* Three subclasses that __subclasses__() lists out of name order
Wide ==
    << WalkClass(<<"S","i","z","e","r">>, <<0>>, <<2, 3, 4>>),
       WalkClass(<<"G","r","i","d","S","i","z","e","r">>, <<1>>, <<>>),
       WalkClass(<<"B","o","x","S","i","z","e","r">>, <<1>>, <<>>),
       WalkClass(<<"W","r","a","p","S","i","z","e","r">>, <<1>>, <<>>) >>

Leaf == << WalkClass(<<"P","o","i","n","t">>, <<0>>, <<>>) >>

Hierarchies == {Chain, Diamond, Alias, Wide, Leaf}

WalkDepths == (0 - 1)..MaxDepth

\* A call of write_recursive: cls and depth as passed, then the sorted
\* subclasses and how many of them the loop has taken
Frame(c, depth) == [cls |-> c, depth |-> depth, pc |-> "enter", subclasses |-> <<>>, k |-> 0]

\* What make_stub writes of a class in the walk: the class, the depth of the
\* call, and the bases its header names bare, those found in hide_mod
Stub(h, c, depth, hide_mod) ==
    [kind |-> "class", cls |-> c, depth |-> depth,
     bare |-> {h[c].bases[i] : i \in {j \in 1..Len(h[c].bases) : h[c].bases[j] \in hide_mod}}]

Newline == [kind |-> "newline", cls |-> 0, depth |-> 0, bare |-> {}]

\* subclasses.sort(key=lambda c: c.__name__)
SortedSubclasses(h, c) ==
    StableSort(h[c].subclasses,
               StrRanks([i \in 1..Len(h[c].subclasses) |-> h[h[c].subclasses[i]].name]))

\* The stack after the innermost call returned
Returned(stack) == SubSeq(stack, 1, Len(stack) - 1)

WalkInit ==
    /\ hierarchy \in Hierarchies
    /\ max_depth \in WalkDepths
    /\ walk_stack = <<Frame(1, 0)>>
    /\ seen = {}
    /\ walk_file = <<>>
    /\ walkPc = "run"

WalkIdle ==
    /\ hierarchy = <<>>
    /\ max_depth = 0
    /\ walk_stack = <<>>
    /\ seen = {}
    /\ walk_file = <<>>
    /\ walkPc = "idle"

\* write_recursive up to its loop: make_stub, the depth test, _seen.add and
\* the sort of the subclasses
WalkEnter ==
    /\ walkPc = "run"
    /\ walk_stack[Len(walk_stack)].pc = "enter"
    /\ \E top \in {walk_stack[Len(walk_stack)]} :
           /\ walk_file' = Append(walk_file, Stub(hierarchy, top.cls, top.depth, seen))
           /\ IF top.depth + 1 = max_depth
              THEN /\ walk_stack' = Returned(walk_stack)
                   /\ walkPc' = IF Len(walk_stack) = 1 THEN "done" ELSE "run"
                   /\ seen' = seen
              ELSE /\ seen' = seen \cup {top.cls}
                   /\ walk_stack' = [walk_stack EXCEPT ![Len(walk_stack)] =
                                        [top EXCEPT !.depth = top.depth + 1, !.pc = "loop",
                                                    !.subclasses = SortedSubclasses(hierarchy, top.cls)]]
                   /\ walkPc' = "run"
    /\ UNCHANGED <<hierarchy, max_depth>>

\* One round of the loop for a subclass named like cls: continue
WalkSkip ==
    /\ walkPc = "run"
    /\ \E top \in {walk_stack[Len(walk_stack)]} :
           /\ top.pc = "loop"
           /\ top.k < Len(top.subclasses)
           /\ hierarchy[top.subclasses[top.k + 1]].name = hierarchy[top.cls].name
           /\ walk_stack' = [walk_stack EXCEPT ![Len(walk_stack)].k = top.k + 1]
    /\ UNCHANGED <<hierarchy, max_depth, seen, walk_file, walkPc>>

\* One round of the loop for any other subclass: the "\n" and the call
WalkDescend ==
    /\ walkPc = "run"
    /\ \E top \in {walk_stack[Len(walk_stack)]} :
           /\ top.pc = "loop"
           /\ top.k < Len(top.subclasses)
           /\ hierarchy[top.subclasses[top.k + 1]].name # hierarchy[top.cls].name
           /\ walk_file' = Append(walk_file, Newline)
           /\ walk_stack' = Append([walk_stack EXCEPT ![Len(walk_stack)].k = top.k + 1],
                                   Frame(top.subclasses[top.k + 1], top.depth))
    /\ UNCHANGED <<hierarchy, max_depth, seen, walkPc>>

\* The end of the loop: the call returns
WalkReturn ==
    /\ walkPc = "run"
    /\ \E top \in {walk_stack[Len(walk_stack)]} :
           /\ top.pc = "loop"
           /\ top.k = Len(top.subclasses)
    /\ walk_stack' = Returned(walk_stack)
    /\ walkPc' = IF Len(walk_stack) = 1 THEN "done" ELSE "run"
    /\ UNCHANGED <<hierarchy, max_depth, seen, walk_file>>

(***************************************************************************)
(* update.py: a call of ImportGroup(imports).                              *)
(***************************************************************************)
GroupImports ==
    {Import(n, m) : n \in {<<"S","i","z","e">>, <<"B","u","t","t","o","n">>}, m \in {<<"w","x",".","_","c","o","r","e">>, <<"w","x",".","_","w","i","n","d","o","w","s">>}}

GroupInit ==
    /\ grp_imports \in SeqsUpTo(GroupImports, MaxImports)
    /\ grp = None
    /\ grpPc = "call"

GroupIdle ==
    /\ grp_imports = <<>>
    /\ grp = None
    /\ grpPc = "idle"

ImportGroupCall ==
    /\ grpPc = "call"
    /\ \E res \in {ImportGroup_init(grp_imports)} :
           /\ grp' = res
           /\ grpPc' = IF res.raised = "" THEN "built" ELSE "raised"
    /\ UNCHANGED grp_imports

(***************************************************************************)
(* Specifications.                                                         *)
(***************************************************************************)
ArgsNext == ParseArgsCall /\ UNCHANGED <<scanVars, stubVars, updVars, grpVars, sigVars, walkVars>>

InitArgs == ArgsInit /\ ScanIdle /\ StubIdle /\ UpdateIdle /\ GroupIdle /\ SigIdle /\ WalkIdle

SpecArgs == InitArgs /\ [][ArgsNext]_vars

ScanNext == FindSignaturesCall /\ UNCHANGED <<argsVars, stubVars, updVars, grpVars, sigVars, walkVars>>

InitScan == ScanInit /\ ArgsIdle /\ StubIdle /\ UpdateIdle /\ GroupIdle /\ SigIdle /\ WalkIdle

SpecScan == InitScan /\ [][ScanNext]_vars

StubNext ==
    \/ MakeStubHeader /\ UNCHANGED <<argsVars, scanVars, updVars, grpVars, sigVars, walkVars>>
    \/ MakeStubInit /\ UNCHANGED <<argsVars, scanVars, updVars, grpVars, sigVars, walkVars>>
    \/ MakeStubMethod /\ UNCHANGED <<argsVars, scanVars, updVars, grpVars, sigVars, walkVars>>
    \/ MakeStubMethodsDone /\ UNCHANGED <<argsVars, scanVars, updVars, grpVars, sigVars, walkVars>>

InitStub == StubInit /\ ArgsIdle /\ ScanIdle /\ UpdateIdle /\ GroupIdle /\ SigIdle /\ WalkIdle

SpecStub == InitStub /\ [][StubNext]_vars

UpdateNext ==
    \/ Start /\ UNCHANGED <<argsVars, scanVars, stubVars, grpVars, sigVars, walkVars>>
    \/ ScanOverrides /\ UNCHANGED <<argsVars, scanVars, stubVars, grpVars, sigVars, walkVars>>
    \/ Overloads /\ UNCHANGED <<argsVars, scanVars, stubVars, grpVars, sigVars, walkVars>>
    \/ Remove /\ UNCHANGED <<argsVars, scanVars, stubVars, grpVars, sigVars, walkVars>>
    \/ Classify /\ UNCHANGED <<argsVars, scanVars, stubVars, grpVars, sigVars, walkVars>>
    \/ Partition /\ UNCHANGED <<argsVars, scanVars, stubVars, grpVars, sigVars, walkVars>>
    \/ Sort /\ UNCHANGED <<argsVars, scanVars, stubVars, grpVars, sigVars, walkVars>>
    \/ Open /\ UNCHANGED <<argsVars, scanVars, stubVars, grpVars, sigVars, walkVars>>
    \/ Write /\ UNCHANGED <<argsVars, scanVars, stubVars, grpVars, sigVars, walkVars>>
    \/ Summary /\ UNCHANGED <<argsVars, scanVars, stubVars, grpVars, sigVars, walkVars>>
    \/ Rmtree /\ UNCHANGED <<argsVars, scanVars, stubVars, grpVars, sigVars, walkVars>>
    \/ Copytree /\ UNCHANGED <<argsVars, scanVars, stubVars, grpVars, sigVars, walkVars>>

InitUpdate == UpdateInit /\ ArgsIdle /\ ScanIdle /\ StubIdle /\ GroupIdle /\ SigIdle /\ WalkIdle

SpecUpdate == InitUpdate /\ [][UpdateNext]_vars

GroupNext == ImportGroupCall /\ UNCHANGED <<argsVars, scanVars, stubVars, updVars, sigVars, walkVars>>

InitGroup == GroupInit /\ ArgsIdle /\ ScanIdle /\ StubIdle /\ UpdateIdle /\ SigIdle /\ WalkIdle

SpecGroup == InitGroup /\ [][GroupNext]_vars

SigNext == SignatureCall /\ UNCHANGED <<argsVars, scanVars, stubVars, updVars, grpVars, walkVars>>

InitSig == SigInit /\ ArgsIdle /\ ScanIdle /\ StubIdle /\ UpdateIdle /\ GroupIdle /\ WalkIdle

SpecSig == InitSig /\ [][SigNext]_vars

WalkNext ==
    \/ WalkEnter /\ UNCHANGED <<argsVars, scanVars, stubVars, updVars, grpVars, sigVars>>
    \/ WalkSkip /\ UNCHANGED <<argsVars, scanVars, stubVars, updVars, grpVars, sigVars>>
    \/ WalkDescend /\ UNCHANGED <<argsVars, scanVars, stubVars, updVars, grpVars, sigVars>>
    \/ WalkReturn /\ UNCHANGED <<argsVars, scanVars, stubVars, updVars, grpVars, sigVars>>

InitWalk ==
    WalkInit /\ ArgsIdle /\ ScanIdle /\ StubIdle /\ UpdateIdle /\ GroupIdle /\ SigIdle

SpecWalk == InitWalk /\ [][WalkNext]_vars

(***************************************************************************)
(* Claims about parse_args.                                                *)
(***************************************************************************)
\* C2: with "x*" -> T1 and the exact pattern "xPosition" -> T2 in the table,
\* parse_args gives an argument without a default named "xPosition" the type T2
\* and one named "xOffset" the type T1.
C2_LongestStemFirst ==
    (argsPc = "done" /\ table = scenario_type_to_arg) =>
        \A i \in 1..Len(args) :
            /\ args[i] = <<"x","P","o","s","i","t","i","o","n">> => r[i].tp = <<"T","2">>
            /\ args[i] = <<"x","O","f","f","s","e","t">> => r[i].tp = <<"T","1">>

\* C10: with the trailing-wildcard pattern "win*" -> T3 in the table, parse_args
\* gives the argument name "winID" (upper case after the stem) the type T3, and
\* gives neither "winner" (lower case after the stem) nor the bare stem "win"
\* the type T3.
C10_TrailingWildcard ==
    (argsPc = "done" /\ table = scenario_type_to_arg) =>
        \A i \in 1..Len(args) :
            /\ args[i] = <<"w","i","n","I","D">> => r[i].tp = <<"T","3">>
            /\ args[i] \in {<<"w","i","n","n","e","r">>, <<"w","i","n">>} => r[i].tp # <<"T","3">>

(***************************************************************************)
(* Claims about find_signatures.  The well-formed signatures of a          *)
(* documentation string are stated from the grammar's shape, without the   *)
(* parser: a name, "(", arguments separated by commas, ")", and the        *)
(* longest return annotation that follows.                                 *)
(***************************************************************************)
TokText(tok) == IF tok.k \in {"id", "val"} THEN tok.s ELSE <<tok.k>>

\* The text of tokens lo..hi, joined as Combine joins them
RECURSIVE SliceText(_, _, _)
SliceText(t, lo, hi) ==
    IF lo > hi THEN <<>> ELSE TokText(t[lo]) \o SliceText(t, lo + 1, hi)

\* Where the comma-separated pieces of tokens lo..hi start
PieceStarts(t, lo, hi) == {lo} \cup {c + 1 : c \in {i \in lo..hi : t[i].k = ","}}

\* The last token of the piece starting at a
PieceEnd(t, a, hi) ==
    LET stops == {i \in a..hi : t[i].k = ","}
    IN  IF stops = {} THEN hi ELSE (CHOOSE i \in stops : \A j \in stops : i <= j) - 1

IsArgPiece(t, a, b) ==
    \/ b = a /\ t[a].k = "id"
    \/ b = a + 2 /\ t[a].k = "id" /\ t[a + 1].k = "=" /\ t[b].k \in {"id", "val"}
    \/ b = a + 3 /\ t[a].k = "id" /\ t[a + 1].k = "=" /\ t[a + 2].k = "(" /\ t[b].k = ")"

IsArgList(t, lo, hi) ==
    lo > hi \/ \A a \in PieceStarts(t, lo, hi) : IsArgPiece(t, a, PieceEnd(t, a, hi))

\* A signature starts at token p and its argument list closes at token q
SigClosesAt(t, p, q) ==
    /\ Is(t, p, "id") /\ Is(t, p + 1, "(")
    /\ q >= p + 2 /\ Is(t, q, ")")
    /\ IsArgList(t, p + 2, q - 1)

\* Tokens q+1..e are a return annotation: "->" and an identifier or a tuple of them
IsReturn(t, q, e) ==
    /\ Is(t, q + 1, "->")
    /\ \/ e = q + 2 /\ Is(t, e, "id")
       \/ /\ e >= q + 4 /\ Is(t, q + 2, "(") /\ Is(t, e, ")")
          /\ \A a \in PieceStarts(t, q + 3, e - 1) :
                a <= e - 1 /\ PieceEnd(t, a, e - 1) = a /\ t[a].k = "id"

SetMax(S) == CHOOSE x \in S : \A y \in S : y <= x
SetMin(S) == CHOOSE x \in S : \A y \in S : x <= y

RECURSIVE Ascending(_)
Ascending(S) == IF S = {} THEN <<>> ELSE <<SetMin(S)>> \o Ascending(S \ {SetMin(S)})

\* The tokens at which a well-formed signature named name starts
Occurrences(t, name) ==
    {p \in 1..Len(t) : t[p] = Id(name) /\ \E q \in 1..Len(t) : SigClosesAt(t, p, q)}

\* What the well-formed signature starting at p says
SignatureTextAt(t, p) ==
    LET q == CHOOSE x \in 1..Len(t) : SigClosesAt(t, p, x)
        rets == {e \in 1..Len(t) : IsReturn(t, q, e)}
        starts == Ascending(PieceStarts(t, p + 2, q - 1))
    IN  [name |-> t[p].s,
         args |-> IF p + 2 > q - 1 THEN <<>>
                  ELSE [i \in 1..Len(starts) |->
                            SliceText(t, starts[i], PieceEnd(t, starts[i], q - 1))],
         return |-> IF rets = {} THEN <<"N","o","n","e">> ELSE SliceText(t, q + 2, SetMax(rets))]

\* The Signatures of the well-formed signatures starting at the tokens of K
SignaturesAt(t, K, kw) ==
    LET ps == Ascending(K) IN [i \in 1..Len(ps) |-> Signature(SignatureTextAt(t, ps[i]), kw)]

\* The occurrences whose name is not what directly follows a "->"
NotAfterArrow(t, name) == {p \in Occurrences(t, name) : ~Is(t, p - 1, "->")}

\* C5 as claimed: find_signatures returns every well-formed signature of the
\* name that the documentation holds, and nothing else, in their order.
C5_AllSignaturesFound ==
    scanPc = "done" => sigs = SignaturesAt(doc, Occurrences(doc, fname), kwargs)

\* C5 amended: find_signatures returns well-formed signatures of the name only,
\* in their order, and among them every one whose name is not the token that
\* directly follows a "->" (where the preceding match takes it as its return type).
C5_SignaturesFound ==
    scanPc = "done" =>
        \E K \in SUBSET Occurrences(doc, fname) :
            /\ NotAfterArrow(doc, fname) \subseteq K
            /\ sigs = SignaturesAt(doc, K, kwargs)

\* C5's case: a signature of the name is found behind prose, while one whose
\* name directly follows a "->" is not.
C5_Witness ==
    /\ scanPc = "done"
    /\ Len(sigs) >= 1
    /\ Len(sigs) < Cardinality(Occurrences(doc, fname))
    /\ doc[1] = JUNK

(***************************************************************************)
(* Claims about make_stub.                                                 *)
(***************************************************************************)
\* The signature lines printed for an owner: its lines but the "@overload" ones
SignatureTexts(owner) ==
    LET own == SelectSeq(file, LAMBDA l : l.owner = owner /\ l.text # <<" "," "," "," ","@","o","v","e","r","l","o","a","d">>)
    IN  [i \in 1..Len(own) |-> own[i].text]

Printed(ss) == [i \in 1..Len(ss) |-> print(ss[i], <<" "," "," "," ">>)]

\* The signatures of a method as parsed, before make_stub changes any type
ParsedSignatures(name) == find_signatures(cls.methods[name], name, MethKw(stubAny))

Uninferred(tp) == tp \in {None, <<"A","n","y">>}

\* The methods with one signature whose name is "Get" and suffix
SingleGetters ==
    {g \in DOMAIN cls.methods : startswith(g, <<"G","e","t">>) /\ Len(ParsedSignatures(g)) = 1}

\* C3 as claimed: with a single-signature GetX returning T and a method SetX,
\* SetX's parameter after self is printed with type T when SetX has exactly one
\* parameter after self and that one was uninferred; in every other case SetX's
\* signatures are printed as parsed.
C3_SetterGetsReturnType ==
    stubPc = "done" =>
        \A g \in SingleGetters :
            LET setter == <<"S","e","t">> \o SubSeq(g, 4, Len(g))
                T == ParsedSignatures(g)[1].retanot
                ss == ParsedSignatures(setter)
            IN  (setter \in DOMAIN cls.methods /\ ss # <<>>) =>
                    SignatureTexts(setter) =
                        Printed([i \in 1..Len(ss) |->
                                    IF Len(ss[i].args) = 2 /\ Uninferred(ss[i].args[2].tp)
                                    THEN set_type(ss[i], 2, T)
                                    ELSE ss[i]])

\* The argument-type name make_stub's table gives a return annotation
ArgumentTypeOf(T) ==
    LET bare == IF startswith(T, <<"w","x",".">>) THEN SubSeq(T, 4, Len(T)) ELSE T
        rows == {i \in 1..Len(convert_arg_type) : convert_arg_type[i][1] = bare}
    IN  IF rows = {} THEN T ELSE convert_arg_type[CHOOSE i \in rows : TRUE][2]

\* The single-signature getters whose name, every "Get" turned into "Set", is name
GettersOf(name) == {g \in SingleGetters : replace(g, <<"G","e","t">>, <<"S","e","t">>) = name}

\* C3 amended: a method with one signature, one parameter after self and that
\* parameter uninferred (None or Any) is printed with the parameter typed by
\* the argument-type form of T, when a single-signature GetX returning T exists
\* whose name with every "Get" replaced by "Set" is the method's name; every
\* other parsed signature of a method is printed with its types as parsed.
C3_SetterPropagation ==
    stubPc = "done" =>
        \A name \in DOMAIN cls.methods :
            LET ss == ParsedSignatures(name)
                gs == GettersOf(name)
                g == CHOOSE x \in gs : \A y \in gs \ {x} : StrLess(y, x)
            IN  ss # <<>> =>
                    SignatureTexts(name) =
                        IF /\ gs # {} /\ Len(ss) = 1
                           /\ Len(ss[1].args) = 2 /\ Uninferred(ss[1].args[2].tp)
                        THEN Printed(<<set_type(ss[1], 2,
                                        ArgumentTypeOf(ParsedSignatures(g)[1].retanot))>>)
                        ELSE Printed(ss)

\* C3's case: GetLabel() -> String and SetLabel(value): SetLabel is printed with
\* value typed String, the argument-type form of the return type str.
C3_Witness ==
    /\ stubPc = "done"
    /\ <<"G","e","t","L","a","b","e","l">> \in SingleGetters
    /\ ParsedSignatures(<<"G","e","t","L","a","b","e","l">>)[1].retanot = <<"s","t","r">>
    /\ <<"S","e","t","L","a","b","e","l">> \in DOMAIN cls.methods
    /\ ParsedSignatures(<<"S","e","t","L","a","b","e","l">>)[1].args[2].tp = None
    /\ SignatureTexts(<<"S","e","t","L","a","b","e","l">>) = <<<<" "," "," "," ","d","e","f"," ","S","e","t","L","a","b","e","l","(","s","e","l","f",","," ","v","a","l","u","e",":"," ","S","t","r","i","n","g",")"," ","-",">"," ","N","o","n","e",":"," ",".",".",".">>>>

\* C4: for a class derived from Window, a constructor signature parsed as
\* (parent, id, ...) is printed with parent typed wx.Window (Optional[wx.Window]
\* for a TopLevelWindow subclass) and id typed wx._WindowID, whatever type the
\* default or the name had given them.
C4_WindowInitTypes ==
    (stubPc \in {"methods", "done"} /\ cls.window) =>
        LET ss == InitSignatures(cls, stubAny)
            W == IF cls.toplevel THEN <<"O","p","t","i","o","n","a","l","[","w","x",".","W","i","n","d","o","w","]">> ELSE <<"w","x",".","W","i","n","d","o","w">>
        IN  \A i \in 1..Len(ss) :
                (/\ Len(ss[i].args) >= 3
                 /\ ss[i].args[2].name = <<"p","a","r","e","n","t">>
                 /\ ss[i].args[3].name = <<"i","d">>) =>
                    SignatureTexts(<<"_","_","i","n","i","t","_","_">>)[i] =
                        print([ss[i] EXCEPT !.args[2].tp = W, !.args[3].tp = <<"w","x",".","_","W","i","n","d","o","w","I","D">>],
                              <<" "," "," "," ">>)

\* C4's case: "Foo(parent, id=0) -> None" on a Window subclass; the default 0
\* had typed id as int.
C4_Witness ==
    /\ stubPc = "done"
    /\ cls.window /\ ~cls.toplevel /\ ~stubAny
    /\ cls.doc = DocParentId
    /\ InitSignatures(cls, stubAny)[1].args[3].tp = <<"i","n","t">>
    /\ SignatureTexts(<<"_","_","i","n","i","t","_","_">>) =
            <<<<" "," "," "," ","d","e","f"," ","_","_","i","n","i","t","_","_","(","s","e","l","f",","," ","p","a","r","e","n","t",":"," ","w","x",".","W","i","n","d","o","w",","," ","i","d",":"," ","w","x",".","_","W","i","n","d","o","w","I","D"," ","="," ",".",".",".",")"," ","-",">"," ","N","o","n","e",":"," ",".",".",".">>>>

(***************************************************************************)
(* Claims about update.py.                                                 *)
(***************************************************************************)
\* The run has come past the partition / the sorts / the write without raising
PastPartition ==
    \/ updPc \in {"sort", "open", "write", "summary", "rmtree", "copytree", "done"}
    \/ updPc = "raised" /\ failedIn \in {"summary", "rmtree"}

PastSort == PastPartition /\ updPc # "sort"

PastWrite == PastSort /\ updPc \notin {"open", "write"}

\* The objects the classification loop collects as enumeration values
CollectedValues ==
    {k \in 1..Len(mod_dict) :
        /\ mod_dict[k].tp = "enum"
        /\ ~startswith(mod_dict[k].name, <<"_">>)
        /\ ~startswith(mod_dict[k].name, <<"t","e","s","t">>)
        /\ ~endswith(mod_dict[k].name, <<"_","i","t","e","r","a","t","o","r">>)
        /\ ~startswith(mod_dict[k].name, <<"w","x","E","V","T">>)}

\* C1: once the partition step has run without raising, every enumeration value
\* collected from the namespace is among the values of exactly one declared
\* EnumClass, the one named as the value's owner: no value is silently dropped.
C1_NoSilentDrop ==
    PastPartition =>
        \A k \in CollectedValues :
            LET owners == {e \in 1..Len(def_enum) : def_enum[e].name = mod_dict[k].tpname}
            IN  /\ Cardinality(owners) = 1
                /\ \A e \in owners :
                        \E v \in 1..Len(def_enum[e].values) :
                            def_enum[e].values[v].name = mod_dict[k].name

\* C6: a second run over the same namespace and the same override files writes
\* the same aggregate stub text as the run before it.
C6_ByteIdentical == (run >= 2 /\ prev_text # None /\ PastWrite) => init_file = prev_text

\* C7: the installed tree is removed only by rmtree, with the aggregate stub
\* completely written; it is filled only by copytree, after the removal; and a
\* run that raises in the scan, the overloads and remove loops, the
\* classification or the partition ends with the aggregate stub and the
\* installed tree as they were when the run started.
C7_ReplaceAfterWrite ==
    [][/\ (pkg_stubs' # pkg_stubs /\ ~pkg_stubs'.exists) =>
                /\ updPc = "rmtree"
                /\ init_file = Render(def_undef, def_import, def_err, def_enum,
                                      def_const, def_evt)
       /\ (pkg_stubs' # pkg_stubs /\ pkg_stubs'.exists) =>
                (updPc = "copytree" /\ ~pkg_stubs.exists)
       /\ (updPc' = "raised"
            /\ failedIn' \in {"scan", "overloads", "remove", "classify", "partition"}) =>
                (init_file' = start_file' /\ pkg_stubs' = start_pkg')]_vars

\* C7's case: a first run that replaced the installed tree of an earlier version
C7_Witness ==
    /\ updPc = "done"
    /\ run = 1
    /\ start_pkg = OldTree
    /\ init_file # OldText
    /\ pkg_stubs.exists
    /\ pkg_stubs.init = init_file

\* Where the modules of the run define the class c: <<module, node>>
ClassDefsOf(c) ==
    UNION {{<<m, n>> : n \in {j \in 1..Len(modules[m].body) :
                                /\ modules[m].body[j].kind = "ClassDef"
                                /\ modules[m].body[j].name = c}} :
           m \in 1..Len(modules)}

\* The names the modules of the run define as a class
ClassNames ==
    UNION {{modules[m].body[n].name :
                n \in {j \in 1..Len(modules[m].body) :
                            /\ modules[m].body[j].kind = "ClassDef"
                            /\ modules[m].body[j].name[1] # "_"}} :
           m \in 1..Len(modules)}

\* The names defined as a class in two override files
DuplicateClasses ==
    {c \in ClassNames : Cardinality({d[1] : d \in ClassDefsOf(c)}) >= 2}

\* Some module defines c as a function or a constant too
DefinedOtherwise(c) ==
    \E m \in 1..Len(modules) : \E n \in 1..Len(modules[m].body) :
        /\ modules[m].body[n].kind \in {"FunctionDef", "AnnAssign"}
        /\ modules[m].body[n].name = c

\* Some module holds what makes the scan raise: a function whose first
\* decorator is not "overload", or a method decorated by no plain name
ScanFailure ==
    \E m \in 1..Len(modules) : \E n \in 1..Len(modules[m].body) :
        LET node == modules[m].body[n]
        IN  /\ node.name # <<>>
            /\ node.name[1] # "_"
            /\ \/ /\ node.kind = "FunctionDef"
                  /\ node.decorators # <<>>
                  /\ node.decorators[1] # <<"o","v","e","r","l","o","a","d">>
               \/ /\ node.kind = "ClassDef"
                  /\ \E k \in 1..Len(node.body) : \E d \in 1..Len(node.body[k].decorators) :
                        node.body[k].decorators[d] = None

ScanIsOver == updPc \notin {"idle", "start", "scan"}

\* How often the line was printed
Printed_count(line) == Len(SelectSeq(stdout, LAMBDA l : l = line))

\* C8 as claimed: with a class defined in two override files the scan raises
\* and the run ends there, the aggregate stub not written.
C8_DuplicateAborts ==
    (ScanIsOver /\ DuplicateClasses # {}) =>
        (updPc = "raised" /\ failedIn = "scan" /\ init_file = start_file)

\* C8 amended: a class defined in two override files makes the scan raise
\* nothing.  Each of the files imports the class; when the namespace binds the
\* name, the first definition marks the class stubbed and every later one
\* prints "Error: duplicate class definition - <name>"; when it does not, every
\* definition prints the "does not corespond" diagnostic.  The run goes on to
\* the later steps.
C8_DuplicateReported ==
    (ScanIsOver /\ DuplicateClasses # {}) =>
        /\ failedIn = "scan" => ScanFailure
        /\ failedIn # "scan" =>
            \A c \in DuplicateClasses :
                /\ \A d \in ClassDefsOf(c) :
                        \E g \in 1..Len(def_import) :
                            /\ def_import[g].mod = <<"w","x",".">> \o modules[d[1]].stem
                            /\ \E k \in 1..Len(def_import[g].imports) :
                                    def_import[g].imports[k].name = c
                /\ ~DefinedOtherwise(c) =>
                        IF Has(namespace, c)
                        THEN /\ c \in classes_stubed
                             /\ Printed_count(<<"E","r","r","o","r",":"," ","d","u","p","l","i","c","a","t","e"," ","c","l","a","s","s"," ","d","e","f","i","n","i","t","i","o","n"," ","-"," ">> \o c)
                                    = Cardinality(ClassDefsOf(c)) - 1
                        ELSE /\ c \notin classes_stubed
                             /\ Printed_count(<<"E","r","r","o","r",":"," ","d","u","p","l","i","c","a","t","e"," ","c","l","a","s","s"," ","d","e","f","i","n","i","t","i","o","n"," ","-"," ">> \o c) = 0

\* C8's case: Size is defined in _core.pyi and in _windows.pyi; the run has
\* printed the diagnostic once and written an aggregate stub that imports Size
\* from both.
C8_Witness ==
    /\ updPc = "done"
    /\ <<"S","i","z","e">> \in DuplicateClasses
    /\ Printed_count(<<"E","r","r","o","r",":"," ","d","u","p","l","i","c","a","t","e"," ","c","l","a","s","s"," ","d","e","f","i","n","i","t","i","o","n"," ","-"," ","S","i","z","e">>) = 1
    /\ \E k \in 1..Len(init_file) : startswith(init_file[k], <<"f","r","o","m"," ","w","x",".","_","c","o","r","e"," ","i","m","p","o","r","t"," ","S","i","z","e"," ","a","s"," ","S","i","z","e">>)
    /\ \E k \in 1..Len(init_file) :
            /\ k + 2 <= Len(init_file)
            /\ init_file[k] = <<"f","r","o","m"," ","w","x",".","_","w","i","n","d","o","w","s"," ","i","m","p","o","r","t"," ","(">>
            /\ init_file[k + 2] = <<" "," "," "," ","S","i","z","e"," ","a","s"," ","S","i","z","e",",">>

\* The priority the kind of a constant gives it: 1 for an int, 2 for a str or
\* bytes, 3 for a name of overloads and for an instance of a wrapped class, 4
\* for an event binder
Priority(a) ==
    LET o == CHOOSE k \in 1..Len(namespace) : namespace[k].name = a.name
    IN  IF \E k \in 1..Len(overloads) : overloads[k][1] = a.name THEN 3
        ELSE IF namespace[o].tp = "int" THEN 1
        ELSE IF namespace[o].tp \in {"str", "bytes"} THEN 2
        ELSE IF namespace[o].tp = "PyEventBinder" THEN 4
        ELSE 3

NameAscending(defs) ==
    \A i, j \in 1..Len(defs) : i < j => StrLess(defs[i].name, defs[j].name)

\* Classes before assignments, each kind in ascending name order
ErrAscending(defs) ==
    \A i, j \in 1..Len(defs) :
        i < j => \/ defs[i].type = "Class" /\ defs[j].type = "Assignment"
                 \/ defs[i].type = defs[j].type /\ StrLess(defs[i].name, defs[j].name)

\* C9 as claimed: every constant of overloads and every toolkit object comes
\* before every int, str or bytes literal; constants of one priority and type
\* are in ascending name order; the other buckets are in ascending name order,
\* the exceptions with classes before assignments.
C9_OverridesBeforeLiterals ==
    PastSort =>
        /\ \A i, j \in 1..Len(def_const) :
                (Priority(def_const[i]) = 3 /\ Priority(def_const[j]) \in {1, 2}) => i < j
        /\ \A i, j \in 1..Len(def_const) :
                (/\ i < j
                 /\ Priority(def_const[i]) = Priority(def_const[j])
                 /\ def_const[i].type = def_const[j].type) =>
                    StrLess(def_const[i].name, def_const[j].name)
        /\ NameAscending(def_undef) /\ NameAscending(def_enum) /\ NameAscending(def_evt)
        /\ ErrAscending(def_err)

\* C9 amended: the constants are in ascending order of priority: int literals,
\* then str and bytes literals, then the constants of overloads and the
\* toolkit objects, then the event binders; within a priority in ascending
\* order of the first seven characters of the type, and within that in
\* ascending name order.  The unstubbed, enumeration and event buckets are in
\* ascending name order, the exceptions with classes before assignments and
\* each kind in ascending name order.
C9_ConstOrder ==
    PastSort =>
        /\ \A i, j \in 1..Len(def_const) :
                i < j =>
                    LET a == def_const[i]
                        b == def_const[j]
                    IN  \/ Priority(a) < Priority(b)
                        \/ /\ Priority(a) = Priority(b)
                           /\ \/ StrLess(prefix(a.type, 7), prefix(b.type, 7))
                              \/ /\ prefix(a.type, 7) = prefix(b.type, 7)
                                 /\ StrLess(a.name, b.name)
        /\ NameAscending(def_undef) /\ NameAscending(def_enum) /\ NameAscending(def_evt)
        /\ ErrAscending(def_err)

\* C9's case: constants of all four priorities, the literals first, and three
\* toolkit objects of two types that share their first seven characters, in
\* name order.
C9_Witness ==
    /\ updPc = "done"
    /\ {Priority(def_const[k]) : k \in 1..Len(def_const)} = {1, 2, 3, 4}
    /\ def_const[1].name = <<"A","C","C","E","L","_","A","L","T">>
    /\ \E k \in 1..Len(def_const) :
            /\ k + 2 <= Len(def_const)
            /\ def_const[k].name = <<"G","r","a","p","h","i","c","s","P","e","n","D","e","f","a","u","l","t">> /\ def_const[k].type = <<"G","r","a","p","h","i","c","s","P","e","n">>
            /\ def_const[k + 1].name = <<"N","u","l","l","G","r","a","p","h","i","c","s","B","r","u","s","h">>
            /\ def_const[k + 1].type = <<"G","r","a","p","h","i","c","s","B","r","u","s","h">>
            /\ def_const[k + 2].name = <<"N","u","l","l","G","r","a","p","h","i","c","s","P","e","n">>
    /\ Len(def_err) = 3 /\ def_err[3].type = "Assignment"

(***************************************************************************)
(* Claims about ImportGroup.                                               *)
(***************************************************************************)
\* Whether two of the imports name different sub-modules
ModulesDiffer(imports) ==
    \E j, k \in 1..Len(imports) : imports[j].mod # imports[k].mod

\* C11: ImportGroup(imports) for a non-empty imports raises ValueError when two
\* of the imports name different sub-modules; when all name the same one it
\* builds the group, whose mod is that sub-module and whose imports are the
\* ones given.
C11_GroupConstruction ==
    (grpPc \in {"built", "raised"} /\ grp_imports # <<>>) =>
        IF ModulesDiffer(grp_imports)
        THEN grpPc = "raised" /\ grp.raised = "ValueError"
        ELSE /\ grpPc = "built"
             /\ \A k \in 1..Len(grp_imports) : grp.mod = grp_imports[k].mod
             /\ grp.imports = grp_imports

\* C11's case: three imports, the first two of wx._core and the third of
\* wx._windows: the constructor raises.
C11_Witness ==
    /\ grpPc = "raised"
    /\ grp.raised = "ValueError"
    /\ Len(grp_imports) = 3
    /\ grp_imports[1].mod = <<"w","x",".","_","c","o","r","e">>
    /\ grp_imports[2].mod = <<"w","x",".","_","c","o","r","e">>
    /\ grp_imports[3].mod = <<"w","x",".","_","w","i","n","d","o","w","s">>

(***************************************************************************)
(* Claims about Signature.                                                 *)
(***************************************************************************)
\* Whether the signature starts with the self argument Signature prepends
HasSelf == sig_kw.init \/ sig_kw.meth

\* The same call without the add_any flag
PlainSignature == Signature(sig_parsed, [sig_kw EXCEPT !.add_any = FALSE])

\* C12 as claimed: with add_any set no argument of the signature built is left
\* uninferred, the prepended self included.
C12_NoArgumentUninferred ==
    (sigPc = "built" /\ sig_kw.add_any) =>
        \A i \in 1..Len(sig_built.args) : sig_built.args[i].tp # None

\* C12 amended: with add_any set, every argument parsed from the signature text
\* carries the type the call without add_any infers for it, or "Any" where
\* that call infers none; the self argument prepended for methods and
\* constructors stays uninferred.
C12_ParsedArgumentsTyped ==
    (sigPc = "built" /\ sig_kw.add_any) =>
        /\ Len(sig_built.args) = Len(sig_parsed.args) + (IF HasSelf THEN 1 ELSE 0)
        /\ HasSelf => sig_built.args[1] = Arg(<<"s","e","l","f">>, None, FALSE)
        /\ \A i \in 1..Len(sig_built.args) :
                (i > 1 \/ ~HasSelf) =>
                    /\ sig_built.args[i].tp # None
                    /\ sig_built.args[i].tp = IF PlainSignature.args[i].tp = None THEN <<"A","n","y">>
                                        ELSE PlainSignature.args[i].tp

\* C12's case: a method SetSize(parent, id=0) built with add_any: parent, which
\* no pattern types, is Any; id keeps int; self has no type.
C12_Witness ==
    /\ sigPc = "built"
    /\ sig_kw = [init |-> FALSE, meth |-> TRUE, add_any |-> TRUE]
    /\ sig_parsed.args = <<<<"p","a","r","e","n","t">>, <<"i","d","=","0">>>>
    /\ sig_built.args = <<Arg(<<"s","e","l","f">>, None, FALSE), Arg(<<"p","a","r","e","n","t">>, <<"A","n","y">>, FALSE),
                    Arg(<<"i","d">>, <<"i","n","t">>, TRUE)>>

(***************************************************************************)
(* Claims about write_recursive.                                           *)
(***************************************************************************)
\* The class stubs written so far, in order
Emitted == SelectSeq(walk_file, LAMBDA e : e.kind = "class")

\* The subclasses of c not named like c, in ascending order of their names
AscendingSubclasses(c) ==
    LET kids == {hierarchy[c].subclasses[i] : i \in 1..Len(hierarchy[c].subclasses)}
        other == {d \in kids : hierarchy[d].name # hierarchy[c].name}
    IN  CHOOSE q \in [1..Cardinality(other) -> other] :
            \A i, j \in 1..Cardinality(other) :
                i < j => StrLess(hierarchy[q[i]].name, hierarchy[q[j]].name)

\* The classes of the depth-first walk from c, a class before its subclasses
RECURSIVE Preorder(_)
Preorder(c) ==
    <<c>> \o Flatten([i \in 1..Len(AscendingSubclasses(c)) |-> Preorder(AscendingSubclasses(c)[i])])

\* C13: the walk never descends into a subclass named like its parent; for a
\* max_depth d >= 0 no class more than d subclass steps below the root is
\* emitted; for a negative max_depth the finished walk has emitted every class
\* reachable through subclass edges, depth-first in ascending name order.
C13_DepthCutoff ==
    /\ \A i \in 2..Len(walk_stack) :
            hierarchy[walk_stack[i].cls].name # hierarchy[walk_stack[i - 1].cls].name
    /\ max_depth >= 0 =>
            \A i \in 1..Len(Emitted) : Emitted[i].depth <= max_depth
    /\ (walkPc = "done" /\ max_depth < 0) =>
            [i \in 1..Len(Emitted) |-> Emitted[i].cls] = Preorder(1)

\* C14: in one walk every class is emitted at most once, and every base a
\* class header names bare was emitted earlier in the walk.
C14_EmittedOnce ==
    /\ \A i, j \in 1..Len(Emitted) : i # j => Emitted[i].cls # Emitted[j].cls
    /\ \A i \in 1..Len(Emitted) :
            \A b \in Emitted[i].bare : \E j \in 1..(i - 1) : Emitted[j].cls = b

(***************************************************************************)
(* Claims about the constructor part of make_stub.                         *)
(***************************************************************************)
\* The type the heuristics give the parent parameter of the class
WindowType == IF cls.toplevel THEN <<"O","p","t","i","o","n","a","l","[","w","x",".","W","i","n","d","o","w","]">> ELSE <<"w","x",".","W","i","n","d","o","w">>

\* C15: for a class derived from Window the constructor part of make_stub
\* never raises, and every parsed constructor signature whose parameter after
\* self is parent is printed with parent typed as the window type, also when
\* no parameter follows parent.
C15_InitCompletes ==
    (stubPc # "idle" /\ cls.window) =>
        /\ stubPc # "raised"
        /\ stubPc \in {"methods", "done"} =>
                \E ss \in {InitSignatures(cls, stubAny)} :
                    \A i \in 1..Len(ss) :
                        (Len(ss[i].args) >= 2 /\ ss[i].args[2].name = <<"p","a","r","e","n","t">>) =>
                            \E line \in {SignatureTexts(<<"_","_","i","n","i","t","_","_">>)[i]} :
                                \/ line = print(set_type(ss[i], 2, WindowType), <<" "," "," "," ">>)
                                \/ /\ Len(ss[i].args) >= 3
                                   /\ line = print(set_type(set_type(ss[i], 2, WindowType),
                                                            3, <<"w","x",".","_","W","i","n","d","o","w","I","D">>), <<" "," "," "," ">>)

=============================================================================
